---- MODULE Spec2Model ----
(***************************************************************************)
(* Chemical Equipment Visualizer: the CSV ingestion service, the analytics *)
(* aggregation service and the Dataset API views of the Django backend.    *)
(*                                                                         *)
(* Representation choices.                                                 *)
(*  - A Python str is a sequence of one-character strings, so that         *)
(*    str.strip(), str.lower() and string ordering are computed.           *)
(*  - A float is a binary floating-point number with a significand of     *)
(*    FloatBits bits (53 in CPython and numpy), written as the rational    *)
(*    [n, d] with d > 0 in lowest terms; NaN (pandas' missing value) is    *)
(*    [n |-> 0, d |-> 0].  Every arithmetic operation rounds its exact     *)
(*    result to the nearest float, a tie to the even significand.  The     *)
(*    exponent is unbounded.  A standard deviation is carried as its       *)
(*    radicand (the variance): sqrt is monotone and maps 0 to 0.           *)
(*  - A Python dict is a sequence of <<key, value>> pairs in insertion     *)
(*    order, because list(d.keys()) and list(d.values()) expose it.        *)
(***************************************************************************)
EXTENDS Integers, Sequences, FiniteSets, TLC

(***************************************************************************)
(* Bounds of the model                                                     *)
(***************************************************************************)
\* longest CSV body (data rows) drawn as a parser input
MaxRows == 3

\* width of the significand of a float of the model, in bits
FloatBits == 4

(***************************************************************************)
(* Python str                                                              *)
(***************************************************************************)
\* the characters in use, in code-point order
Alphabet ==
  << " ",
     "A", "B", "C", "D", "E", "F", "G", "H", "I", "J", "K", "L", "M",
     "N", "O", "P", "Q", "R", "S", "T", "U", "V", "W", "X", "Y", "Z",
     "a", "b", "c", "d", "e", "f", "g", "h", "i", "j", "k", "l", "m",
     "n", "o", "p", "q", "r", "s", "t", "u", "v", "w", "x", "y", "z" >>

Ord(c) == CHOOSE i \in 1..Len(Alphabet) : Alphabet[i] = c

IsUpper(c) == Ord(c) \in 2..27

LowerChar(c) == IF IsUpper(c) THEN Alphabet[Ord(c) + 26] ELSE c

\* str.lower()
Lower(s) == [i \in 1..Len(s) |-> LowerChar(s[i])]

RECURSIVE LStrip(_)
LStrip(s) == IF s # <<>> /\ Head(s) = " " THEN LStrip(Tail(s)) ELSE s

RECURSIVE RStrip(_)
RStrip(s) ==
  IF s # <<>> /\ s[Len(s)] = " " THEN RStrip(SubSeq(s, 1, Len(s) - 1)) ELSE s

\* str.strip()
Strip(s) == RStrip(LStrip(s))

\* s < t in code-point order (Python str comparison, the database's binary collation)
RECURSIVE StrLess(_, _)
StrLess(s, t) ==
  IF t = <<>> THEN FALSE
  ELSE IF s = <<>> THEN TRUE
  ELSE IF Head(s) = Head(t) THEN StrLess(Tail(s), Tail(t))
  ELSE Ord(Head(s)) < Ord(Head(t))

(***************************************************************************)
(* float                                                                   *)
(***************************************************************************)
NaN == [n |-> 0, d |-> 0]

IsNaN(x) == x.d = 0

Abs(i) == IF i < 0 THEN -i ELSE i

RECURSIVE Gcd(_, _)
Gcd(a, b) == IF b = 0 THEN a ELSE Gcd(b, a % b)

\* the rational p/q (q > 0) in lowest terms
Rat(p, q) ==
  LET g == Gcd(Abs(p), q) IN [n |-> p \div g, d |-> q \div g]

Num(i) == [n |-> i, d |-> 1]

Zero == Num(0)

RECURSIVE Pow2(_)
Pow2(k) == IF k = 0 THEN 1 ELSE 2 * Pow2(k - 1)

\* the significands of the floats are the integers from MaxSignificand / 2
\* up to, and without, MaxSignificand
MaxSignificand == Pow2(FloatBits)

\* a / d written as (a' / d') * 2^e with a significand a' / d' in that range
RECURSIVE Normalize(_, _, _)
Normalize(a, d, e) ==
  IF a >= MaxSignificand * d THEN Normalize(a, 2 * d, e + 1)
  ELSE IF 2 * a < MaxSignificand * d THEN Normalize(2 * a, d, e - 1)
  ELSE [a |-> a, d |-> d, e |-> e]

\* the integer nearest to a / d, a tie going to the even one
RoundHalfEven(a, d) ==
  LET q == a \div d
      r2 == 2 * (a % d)
  IN IF r2 > d \/ (r2 = d /\ q % 2 = 1) THEN q + 1 ELSE q

\* the float nearest to the rational x, a tie going to the even significand;
\* an integer below MaxSignificand is a float as it stands
Fl(x) ==
  IF IsNaN(x) \/ (x.d = 1 /\ Abs(x.n) < MaxSignificand) THEN x
  ELSE LET s == Normalize(Abs(x.n), x.d, 0)
           m == (IF x.n < 0 THEN -1 ELSE 1) * RoundHalfEven(s.a, s.d)
       IN IF s.e >= 0 THEN Rat(m * Pow2(s.e), 1) ELSE Rat(m, Pow2(-s.e))

RatAdd(x, y) == Fl(Rat(x.n * y.d + y.n * x.d, x.d * y.d))

RatSub(x, y) == Fl(Rat(x.n * y.d - y.n * x.d, x.d * y.d))

RatMul(x, y) == Fl(Rat(x.n * y.n, x.d * y.d))

RatDivInt(x, k) == Fl(Rat(x.n, x.d * k))

\* x < y; any comparison with NaN is False
RatLess(x, y) == ~IsNaN(x) /\ ~IsNaN(y) /\ x.n * y.d < y.n * x.d

(***************************************************************************)
(* CSV parser service (services/csv_parser.py)                             *)
(***************************************************************************)
Equipment_Name == <<"E","q","u","i","p","m","e","n","t"," ","N","a","m","e">>
Type == <<"T","y","p","e">>
Flowrate == <<"F","l","o","w","r","a","t","e">>
Pressure == <<"P","r","e","s","s","u","r","e">>
Temperature == <<"T","e","m","p","e","r","a","t","u","r","e">>

REQUIRED_COLUMNS == <<Equipment_Name, Type, Flowrate, Pressure, Temperature>>

STRING_COLUMNS == <<Equipment_Name, Type>>

NUMERIC_COLUMNS == <<Flowrate, Pressure, Temperature>>

Range(s) == {s[i] : i \in 1..Len(s)}

SetMin(S) == CHOOSE x \in S : \A y \in S : x <= y

\* A cell as pandas holds it: missing (NaN), a number, or text.
NA == [k |-> "na", v |-> NaN, s |-> <<>>]
N(i) == [k |-> "num", v |-> Fl(Num(i)), s |-> <<>>]
T(str) == [k |-> "txt", v |-> NaN, s |-> str]

IsNull(c) == c.k = "na"

\* an error or warning message: its fixed text and what is formatted into it
Msg(text, cols, count) == [text |-> text, cols |-> cols, count |-> count]

\* pd.DataFrame()
EmptyFrame == [columns |-> <<>>, rows |-> <<>>]

\* position of the column called name (0 when absent)
ColIndex(columns, name) ==
  IF \E j \in 1..Len(columns) : columns[j] = name
  THEN SetMin({j \in 1..Len(columns) : columns[j] = name})
  ELSE 0

Cell(df, r, name) == df.rows[r][ColIndex(df.columns, name)]

\* the sub-sequence of s at the positions satisfying keep, order preserved
RECURSIVE SelectIdx(_, _, _)
SelectIdx(s, keep, i) ==
  IF i > Len(s) THEN <<>>
  ELSE (IF i \in keep THEN <<s[i]>> ELSE <<>>) \o SelectIdx(s, keep, i + 1)

\* pd.read_csv raises EmptyDataError on a file with no header line
IsEmptyData(f) == f.header = <<>>

\* pd.read_csv raises ParserError on a line with more fields than the header
IsParserError(f) == \E r \in 1..Len(f.rows) : Len(f.rows[r]) > Len(f.header)

\* pd.read_csv: short lines are padded with NaN
ReadCsv(f) ==
  [columns |-> f.header,
   rows |-> [r \in 1..Len(f.rows) |->
               [j \in 1..Len(f.header) |->
                  IF j <= Len(f.rows[r]) THEN f.rows[r][j] ELSE NA]]]

\* _validate_columns: the loop over REQUIRED_COLUMNS from position i on, with
\* the header as renamed so far and the missing columns collected so far
RECURSIVE ValidateColumnsFrom(_, _, _)
ValidateColumnsFrom(i, columns, missing) ==
  IF i > Len(REQUIRED_COLUMNS)
  THEN [columns |-> columns, missing |-> missing]
  ELSE LET col == REQUIRED_COLUMNS[i]
           matches == {j \in 1..Len(columns) :
                         Strip(Lower(columns[j])) = Lower(col)}
       IN IF col \in Range(columns)
          THEN ValidateColumnsFrom(i + 1, columns, missing)
          ELSE IF matches # {}
          THEN LET actual_col == columns[SetMin(matches)]
               IN ValidateColumnsFrom(i + 1,
                    [j \in 1..Len(columns) |->
                       IF columns[j] = actual_col THEN col ELSE columns[j]],
                    missing)
          ELSE ValidateColumnsFrom(i + 1, columns, Append(missing, col))

\* variant of _validate_columns without the case-insensitive match
ValidateColumnsExactly(columns) ==
  [columns |-> columns,
   missing |-> SelectSeq(REQUIRED_COLUMNS, LAMBDA col : col \notin Range(columns))]

ValidateColumns(columns) == ValidateColumnsFrom(1, columns, <<>>)

\* astype(str).str.strip() on one cell: NaN becomes the text "nan"
AsStrStripped(c) ==
  IF c.k = "txt" THEN T(Strip(c.s)) ELSE T(<<"n","a","n">>)

\* pd.to_numeric(errors='coerce') on one cell: text that is no number becomes NaN
ToNumeric(c) == IF c.k = "num" THEN c ELSE NA

\* _clean_data
CleanData(df) ==
  LET kept == {r \in 1..Len(df.rows) :
                 \E j \in 1..Len(df.columns) : ~IsNull(df.rows[r][j])}
      rows == SelectIdx(df.rows, kept, 1)
  IN [columns |-> df.columns,
      rows |-> [r \in 1..Len(rows) |->
                  [j \in 1..Len(df.columns) |->
                     IF df.columns[j] \in Range(STRING_COLUMNS)
                     THEN AsStrStripped(rows[r][j])
                     ELSE IF df.columns[j] \in Range(NUMERIC_COLUMNS)
                     THEN ToNumeric(rows[r][j])
                     ELSE rows[r][j]]]]

\* rows of df with a missing value in one of the numeric columns
NullNumericRows(df) ==
  {r \in 1..Len(df.rows) :
     \E i \in 1..Len(NUMERIC_COLUMNS) : IsNull(Cell(df, r, NUMERIC_COLUMNS[i]))}

\* variant of the drop of incomplete rows that drops nothing
DropNaNumericNothing(df) == df

\* df.dropna(subset=['Flowrate', 'Pressure', 'Temperature'])
DropNaNumeric(df) ==
  [columns |-> df.columns,
   rows |-> SelectIdx(df.rows, (1..Len(df.rows)) \ NullNumericRows(df), 1)]

\* variant of the count of missing values that tells only whether one is missing
NullCountPresence(df, col) ==
  IF \E r \in 1..Len(df.rows) : IsNull(Cell(df, r, col)) THEN 1 ELSE 0

NullCount(df, col) == Cardinality({r \in 1..Len(df.rows) : IsNull(Cell(df, r, col))})

RECURSIVE NullWarnings(_, _)
NullWarnings(df, i) ==
  IF i > Len(REQUIRED_COLUMNS) THEN <<>>
  ELSE (IF NullCount(df, REQUIRED_COLUMNS[i]) > 0
        THEN <<Msg("Column has missing values", <<REQUIRED_COLUMNS[i]>>,
                   NullCount(df, REQUIRED_COLUMNS[i]))>>
        ELSE <<>>) \o NullWarnings(df, i + 1)

\* variant of the check for negative values that looks at the first row only
HasNegativeFirstRow(df, col) ==
  df.rows # <<>> /\ RatLess(Cell(df, 1, col).v, Zero)

HasNegative(df, col) ==
  \E r \in 1..Len(df.rows) : RatLess(Cell(df, r, col).v, Zero)

RECURSIVE NegativeWarnings(_, _)
NegativeWarnings(df, i) ==
  IF i > Len(NUMERIC_COLUMNS) THEN <<>>
  ELSE (IF HasNegative(df, NUMERIC_COLUMNS[i])
        THEN <<Msg("Column contains negative values", <<NUMERIC_COLUMNS[i]>>, 0)>>
        ELSE <<>>) \o NegativeWarnings(df, i + 1)

\* variant of _validate_data that rejects a frame as soon as one row has to
\* be dropped
ValidateDataStrict(df) ==
  IF df.rows = <<>>
  THEN [ok |-> FALSE,
        errors |-> <<Msg("No valid data rows found in the file.", <<>>, 0)>>,
        warnings |-> <<>>]
  ELSE IF NullNumericRows(df) # {}
  THEN [ok |-> FALSE,
        errors |-> <<Msg("No valid data rows after cleaning.", <<>>, 0)>>,
        warnings |-> NullWarnings(df, 1)]
  ELSE [ok |-> TRUE,
        errors |-> <<>>,
        warnings |-> NullWarnings(df, 1) \o NegativeWarnings(df, 1)]

\* _validate_data: the verdict and the messages it appends.  The frame the
\* caller keeps is df itself: df_clean is local to the method.
ValidateData(df) ==
  IF df.rows = <<>>
  THEN [ok |-> FALSE,
        errors |-> <<Msg("No valid data rows found in the file.", <<>>, 0)>>,
        warnings |-> <<>>]
  ELSE LET df_clean == DropNaNumeric(df)
           dropped == Len(df.rows) - Len(df_clean.rows)
           w1 == NullWarnings(df, 1)
           w2 == IF dropped > 0
                 THEN <<Msg("Dropped rows with missing numeric values.", <<>>, dropped)>>
                 ELSE <<>>
       IN IF df_clean.rows = <<>>
          THEN [ok |-> FALSE,
                errors |-> <<Msg("No valid data rows after cleaning.", <<>>, 0)>>,
                warnings |-> w1 \o w2]
          ELSE [ok |-> TRUE,
                errors |-> <<>>,
                warnings |-> w1 \o w2 \o NegativeWarnings(df, 1)]

\* df.rename(columns=COLUMN_MAPPING) followed by to_equipment_dicts: one
\* record per row, keyed by the model field names
ToEquipmentDicts(df) ==
  [r \in 1..Len(df.rows) |->
     [name |-> Cell(df, r, Equipment_Name).s,
      type |-> Cell(df, r, Type).s,
      flowrate |-> Cell(df, r, Flowrate).v,
      pressure |-> Cell(df, r, Pressure).v,
      temperature |-> Cell(df, r, Temperature).v]]

\* variant of the failure paths of parse_file that records no error
ParseFailureSilent(errors, warnings) ==
  [rows |-> <<>>, success |-> FALSE, errors |-> <<>>, warnings |-> warnings]

ParseFailure(errors, warnings) ==
  [rows |-> <<>>, success |-> FALSE, errors |-> errors, warnings |-> warnings]

\* parse_file: the returned (rows, success) and the instance's errors and
\* warnings after the call (both are reset at its start)
ParseFile(f) ==
  IF ~f.readable
  THEN ParseFailure(<<Msg("Unexpected error", <<>>, 0)>>, <<>>)
  ELSE LET w0 == IF f.utf8 THEN <<>>
                 ELSE <<Msg("File was not UTF-8 encoded, used latin-1 encoding.", <<>>, 0)>>
       IN IF IsEmptyData(f)
          THEN ParseFailure(<<Msg("The uploaded file is empty.", <<>>, 0)>>, w0)
          ELSE IF IsParserError(f)
          THEN ParseFailure(<<Msg("Failed to parse CSV", <<>>, 0)>>, w0)
          ELSE LET raw == ReadCsv(f)
                   vc == ValidateColumns(raw.columns)
               IN IF vc.missing # <<>>
                  THEN ParseFailure(<<Msg("Missing required columns", vc.missing, 0)>>, w0)
                  ELSE LET df == CleanData([columns |-> vc.columns, rows |-> raw.rows])
                           vd == ValidateData(df)
                       IN IF ~vd.ok
                          THEN ParseFailure(vd.errors, w0 \o vd.warnings)
                          ELSE [rows |-> ToEquipmentDicts(df),
                                success |-> TRUE,
                                errors |-> <<>>,
                                warnings |-> w0 \o vd.warnings]

(***************************************************************************)
(* Analytics service (services/analytics.py)                               *)
(***************************************************************************)
NUMERIC_FIELDS == <<"flowrate", "pressure", "temperature">>

\* the column of one numeric field, as a sequence of floats
Column(rows, field) == [i \in 1..Len(rows) |-> rows[i][field]]

\* pandas reductions skip NaN
NotNa(xs) == SelectIdx(xs, {i \in 1..Len(xs) : ~IsNaN(xs[i])}, 1)

RECURSIVE SumSeq(_)
SumSeq(xs) ==
  IF xs = <<>> THEN Zero
  ELSE RatAdd(SumSeq(SubSeq(xs, 1, Len(xs) - 1)), xs[Len(xs)])

\* Series.mean()
Mean(xs) ==
  LET v == NotNa(xs) IN IF v = <<>> THEN NaN ELSE RatDivInt(SumSeq(v), Len(v))

\* Series.min()
MinOf(xs) ==
  LET v == NotNa(xs)
  IN IF v = <<>> THEN NaN
     ELSE CHOOSE x \in Range(v) : \A y \in Range(v) : ~RatLess(y, x)

\* variant of Series.max() that returns the first value present
MaxOfFirst(xs) ==
  LET v == NotNa(xs) IN IF v = <<>> THEN NaN ELSE v[1]

\* Series.max()
MaxOf(xs) ==
  LET v == NotNa(xs)
  IN IF v = <<>> THEN NaN
     ELSE CHOOSE x \in Range(v) : \A y \in Range(v) : ~RatLess(x, y)

\* Series.std() (ddof = 1), carried as its radicand: the sum of squared
\* deviations over N - 1; NaN when fewer than two values are present
StdOf(xs) ==
  LET v == NotNa(xs)
      m == Mean(v)
      sq == [i \in 1..Len(v) |-> RatMul(RatSub(v[i], m), RatSub(v[i], m))]
  IN IF Len(v) <= 1 THEN NaN ELSE RatDivInt(SumSeq(sq), Len(v) - 1)

\* variant without the guard on the number of rows: float(series.std())
StdFieldUnguarded(rows, field) == StdOf(Column(rows, field))

\* float(series.std()) if len(frame) > 1 else 0.0
StdField(rows, field) ==
  IF Len(rows) > 1 THEN StdOf(Column(rows, field)) ELSE Zero

\* Series.unique(): the distinct values in order of first appearance
RECURSIVE Unique(_)
Unique(xs) ==
  IF xs = <<>> THEN <<>>
  ELSE LET init == Unique(SubSeq(xs, 1, Len(xs) - 1))
           last == xs[Len(xs)]
       IN IF last \in Range(init) THEN init ELSE Append(init, last)

TypesOf(rows) == [i \in 1..Len(rows) |-> rows[i].type]

\* variant of the selection df[df['type'] == equipment_type] that keeps every row
RowsOfAnyType(rows, t) == rows

RowsOfType(rows, t) == SelectIdx(rows, {i \in 1..Len(rows) : rows[i].type = t}, 1)

\* insert pair p into the pairs sorted by descending count, after its equals
RECURSIVE InsertByCount(_, _)
InsertByCount(sorted, p) ==
  IF sorted = <<>> THEN <<p>>
  ELSE IF Head(sorted)[2] >= p[2]
  THEN <<Head(sorted)>> \o InsertByCount(Tail(sorted), p)
  ELSE <<p>> \o sorted

RECURSIVE SortByCount(_)
SortByCount(pairs) ==
  IF pairs = <<>> THEN <<>>
  ELSE InsertByCount(SortByCount(SubSeq(pairs, 1, Len(pairs) - 1)), pairs[Len(pairs)])

\* variant of _compute_type_distribution that counts every type once
ComputeTypeDistributionOnce(rows) ==
  LET types == Unique(TypesOf(rows))
  IN [i \in 1..Len(types) |-> <<types[i], 1>>]

\* _compute_type_distribution: value_counts().to_dict(), most frequent type
\* first, equally frequent types in order of first appearance
ComputeTypeDistribution(rows) ==
  LET types == Unique(TypesOf(rows))
  IN SortByCount([i \in 1..Len(types) |->
                    <<types[i], Len(RowsOfType(rows, types[i]))>>])

FieldStats(rows, field) ==
  [avg |-> Mean(Column(rows, field)),
   min |-> MinOf(Column(rows, field)),
   max |-> MaxOf(Column(rows, field)),
   std |-> StdField(rows, field)]

\* _compute_stats_by_type: one entry per type, in order of first appearance
ComputeStatsByType(rows) ==
  LET types == Unique(TypesOf(rows))
  IN [i \in 1..Len(types) |->
        LET type_rows == RowsOfType(rows, types[i])
        IN <<types[i],
             [count |-> Len(type_rows),
              flowrate |-> FieldStats(type_rows, "flowrate"),
              pressure |-> FieldStats(type_rows, "pressure"),
              temperature |-> FieldStats(type_rows, "temperature")]>>]

\* _empty_analytics
EmptyAnalytics ==
  [total_count |-> 0,
   avg_flowrate |-> Zero, avg_pressure |-> Zero, avg_temperature |-> Zero,
   min_flowrate |-> Zero, max_flowrate |-> Zero,
   min_pressure |-> Zero, max_pressure |-> Zero,
   min_temperature |-> Zero, max_temperature |-> Zero,
   std_flowrate |-> Zero, std_pressure |-> Zero, std_temperature |-> Zero,
   type_distribution |-> <<>>,
   stats_by_type |-> <<>>]

\* compute_analytics, the aggregation of a non-empty frame
Aggregate(rows) ==
  [total_count |-> Len(rows),
   avg_flowrate |-> Mean(Column(rows, "flowrate")),
   avg_pressure |-> Mean(Column(rows, "pressure")),
   avg_temperature |-> Mean(Column(rows, "temperature")),
   min_flowrate |-> MinOf(Column(rows, "flowrate")),
   max_flowrate |-> MaxOf(Column(rows, "flowrate")),
   min_pressure |-> MinOf(Column(rows, "pressure")),
   max_pressure |-> MaxOf(Column(rows, "pressure")),
   min_temperature |-> MinOf(Column(rows, "temperature")),
   max_temperature |-> MaxOf(Column(rows, "temperature")),
   std_flowrate |-> StdField(rows, "flowrate"),
   std_pressure |-> StdField(rows, "pressure"),
   std_temperature |-> StdField(rows, "temperature"),
   type_distribution |-> ComputeTypeDistribution(rows),
   stats_by_type |-> ComputeStatsByType(rows)]

\* variant of compute_analytics without the early return on an empty queryset
ComputeAnalyticsUnguarded(rows) == Aggregate(rows)

\* compute_analytics over the rows of a queryset
ComputeAnalytics(rows) ==
  IF rows = <<>> THEN EmptyAnalytics ELSE Aggregate(rows)

\* variant of list(d.values()) that leaves out the first value
ValuesButFirst(d) == IF d = <<>> THEN <<>> ELSE [i \in 1..(Len(d) - 1) |-> d[i + 1][2]]

\* dict access
Keys(d) == [i \in 1..Len(d) |-> d[i][1]]
Values(d) == [i \in 1..Len(d) |-> d[i][2]]
Get(d, k) == d[CHOOSE i \in 1..Len(d) : d[i][1] = k][2]

\* variant of round(x, 2) that cuts the value off after two decimals
Round2Down(x) ==
  IF IsNaN(x) THEN NaN ELSE Rat((x.n * 100 - ((x.n * 100) % x.d)) \div x.d, 100)

\* round(x, 2): to the nearest hundredth, a tie to the even one
Round2(x) ==
  IF IsNaN(x) THEN NaN
  ELSE LET num == x.n * 100
           q == num \div x.d
           r2 == 2 * (num % x.d)
           up == r2 > x.d \/ (r2 = x.d /\ q % 2 = 1)
       IN Rat(IF up THEN q + 1 ELSE q, 100)

\* get_summary_response
GetSummaryResponse(analytics) ==
  [total_count |-> analytics.total_count,
   equipment_types |-> Keys(analytics.type_distribution),
   averages |-> [flowrate |-> Round2(analytics.avg_flowrate),
                 pressure |-> Round2(analytics.avg_pressure),
                 temperature |-> Round2(analytics.avg_temperature)],
   ranges |-> [flowrate |-> [min |-> Round2(analytics.min_flowrate),
                             max |-> Round2(analytics.max_flowrate)],
               pressure |-> [min |-> Round2(analytics.min_pressure),
                             max |-> Round2(analytics.max_pressure)],
               temperature |-> [min |-> Round2(analytics.min_temperature),
                                max |-> Round2(analytics.max_temperature)]],
   type_distribution |-> analytics.type_distribution,
   stats_by_type |-> analytics.stats_by_type]

\* variant of get_chart_data whose bar series follow the order of the type
\* distribution while the bar labels follow the order of stats_by_type
GetChartDataByDistribution(analytics) ==
  LET type_distribution == analytics.type_distribution
      stats_by_type == analytics.stats_by_type
      types == Keys(type_distribution)
      series(label, field) ==
        [label |-> label,
         data |-> [i \in 1..Len(types) |-> Get(stats_by_type, types[i])[field].avg]]
  IN [bar_chart |->
        [labels |-> Keys(stats_by_type),
         datasets |-> <<series("Avg Flowrate", "flowrate"),
                        series("Avg Pressure", "pressure"),
                        series("Avg Temperature", "temperature")>>],
      pie_chart |->
        [labels |-> Keys(type_distribution),
         data |-> Values(type_distribution)]]

\* get_chart_data
GetChartData(analytics) ==
  LET type_distribution == analytics.type_distribution
      stats_by_type == analytics.stats_by_type
      types == Keys(stats_by_type)
      series(label, field) ==
        [label |-> label,
         data |-> [i \in 1..Len(types) |-> Get(stats_by_type, types[i])[field].avg]]
  IN [bar_chart |->
        [labels |-> types,
         datasets |-> <<series("Avg Flowrate", "flowrate"),
                        series("Avg Pressure", "pressure"),
                        series("Avg Temperature", "temperature")>>],
      pie_chart |->
        [labels |-> Keys(type_distribution),
         data |-> Values(type_distribution)]]

(***************************************************************************)
(* Inputs of the ingestion and aggregation pipeline                        *)
(***************************************************************************)
Pump == <<"P","u","m","p">>
Valve == <<"V","a","l","v","e">>
PaddedPump == <<" ","P","u","m","p"," ">>
NameA == <<"A">>
NameB == <<"B">>
NameC == <<"C">>

\* one CSV line under the canonical header
Line(name, type, flowrate, pressure, temperature) ==
  <<T(name), T(type), flowrate, pressure, temperature>>

\* the CSV lines the bodies of the inputs are built from
Lines ==
  {Line(NameA, Pump, fl, N(1), N(3)) : fl \in {T(<<"x">>), N(-1), N(2), N(14)}}
  \cup {Line(NameA, Valve, N(2), N(1), N(3)),
        Line(NameB, PaddedPump, N(2), N(1), N(-4)),
        Line(NameB, Pump, N(2), NA, N(3)),
        <<NA, NA, NA, NA, NA>>}

\* further lines, each the only line of an input: a short line, a line with
\* a field too many, a line without a name, a line without a flowrate
OddLines ==
  {<<T(NameB), T(Pump), N(2)>>,
   <<T(NameB), T(Pump), N(2), N(1), N(3), N(9)>>,
   <<NA, T(Valve), N(5), N(1), N(3)>>,
   Line(NameA, Valve, NA, N(1), N(3))}

Bodies == UNION {[1..n -> Lines] : n \in 0..MaxRows}

File(readable, utf8, header, rows) ==
  [readable |-> readable, utf8 |-> utf8, header |-> header, rows |-> rows]

\* a header spelled as the parser expects it, or in lower case with a
\* trailing blank, over any selection of the required columns
Spelled(style, col) == IF style = "lower" THEN Append(Lower(col), " ") ELSE col

HeaderOf(present, style) ==
  SelectIdx([i \in 1..Len(REQUIRED_COLUMNS) |-> Spelled(style, REQUIRED_COLUMNS[i])],
            present, 1)

GoodLine == Line(NameA, Pump, N(2), N(1), N(3))

Headers ==
  {HeaderOf(present, style) :
     present \in SUBSET (1..Len(REQUIRED_COLUMNS)), style \in {"exact", "lower"}}

CsvFiles ==
  {File(TRUE, TRUE, REQUIRED_COLUMNS, b) : b \in Bodies}
  \cup {File(TRUE, TRUE, h, <<SubSeq(GoodLine, 1, Len(h))>>) : h \in Headers}
  \cup {File(TRUE, utf8, REQUIRED_COLUMNS, <<l>>) :
          l \in Lines \cup OddLines, utf8 \in BOOLEAN}
  \cup {File(FALSE, TRUE, REQUIRED_COLUMNS, <<GoodLine>>)}

\* the inputs handed to a parser instance that has parsed before
ReuseFiles ==
  {File(TRUE, FALSE, REQUIRED_COLUMNS, <<l>>) : l \in Lines \cup OddLines}
  \cup {File(FALSE, TRUE, REQUIRED_COLUMNS, <<GoodLine>>)}

(***************************************************************************)
(* Database (models.py, settings) and the requests of the API (views.py)   *)
(***************************************************************************)
\* retention cap of the model, standing for settings.MAX_DATASETS_PER_USER
\* (5 when the setting is absent)
MAX_DATASETS_PER_USER == 1

\* number of Dataset ids the model hands out
MaxUploads == 2

Users == {"alice", "bob"}

\* DATABASES['default']['ENGINE']: SQLite, or PostgreSQL via DATABASE_URL
Engines == {"sqlite3", "postgresql"}

DatasetIds == 1..MaxUploads

\* the uploads of the model: a file whose least frequent type comes first, a file
\* with a line whose Flowrate is no number, and a file without Pressure column
UploadFiles ==
  {File(TRUE, TRUE, REQUIRED_COLUMNS,
        <<Line(NameB, Pump, N(2), N(1), N(3)),
          Line(NameA, Valve, N(5), N(1), N(3)),
          Line(NameC, Pump, N(-1), N(1), N(3))>>),
   File(TRUE, TRUE, REQUIRED_COLUMNS,
        <<Line(NameA, Pump, N(2), N(1), N(3)),
          Line(NameA, Pump, N(5), N(1), N(3)),
          Line(NameB, Pump, T(<<"x">>), N(1), N(3))>>),
   File(TRUE, TRUE, HeaderOf({1, 2, 3, 5}, "exact"), <<SubSeq(GoodLine, 1, 4)>>)}

None == <<>>
Some(x) == <<x>>

EmptyDb == [datasets |-> {}, equipment |-> {}, analysis |-> {}]

\* the uncommitted writes of a transaction: rows inserted, datasets deleted
NoDelta == [ins |-> EmptyDb, del |-> {}]

\* variant of the queryset without the filter on the owner
DatasetsOfAnyone(db, user) == db.datasets

\* Dataset.objects.filter(uploaded_by=user)
DatasetsOf(db, user) == {d \in db.datasets : d.uploaded_by = user}

\* dataset.equipment_items: the Equipment rows whose foreign key is the dataset
EquipmentOf(db, id) == {e \in db.equipment : e.dataset = id}

\* dataset.analysis: the AnalysisResult rows whose one-to-one key is the dataset
AnalysisOf(db, id) == {a \in db.analysis : a.dataset = id}

\* order_by('-uploaded_at'): newest first, equal timestamps in any order
RECURSIVE NewestFirst(_)
NewestFirst(S) ==
  IF S = {} THEN {<<>>}
  ELSE UNION {{<<d>> \o rest : rest \in NewestFirst(S \ {d})} :
                d \in {x \in S : \A y \in S : x.uploaded_at >= y.uploaded_at}}

\* Equipment.Meta.ordering = ['name']: equal names in any order
RECURSIVE ByName(_)
ByName(S) ==
  IF S = {} THEN {<<>>}
  ELSE UNION {{<<e>> \o rest : rest \in ByName(S \ {e})} :
                e \in {x \in S : \A y \in S : ~StrLess(y.name, x.name)}}

\* queryset.values('name', 'type', 'flowrate', 'pressure', 'temperature')
ValuesOf(o) ==
  [i \in 1..Len(o) |->
     [name |-> o[i].name, type |-> o[i].type, flowrate |-> o[i].flowrate,
      pressure |-> o[i].pressure, temperature |-> o[i].temperature]]

\* the row collections dataset.equipment_items.all() can yield
EquipmentItems(db, id) == {ValuesOf(o) : o \in ByName(EquipmentOf(db, id))}

\* variant of the deletion that leaves the rows and snapshots behind
DeleteDatasetsOnly(db, ids) ==
  [datasets |-> {d \in db.datasets : d.id \notin ids},
   equipment |-> db.equipment,
   analysis |-> db.analysis]

\* on_delete=CASCADE: deleting datasets deletes their rows and snapshots
DeleteDatasets(db, ids) ==
  [datasets |-> {d \in db.datasets : d.id \notin ids},
   equipment |-> {e \in db.equipment : e.dataset \notin ids},
   analysis |-> {a \in db.analysis : a.dataset \notin ids}]

\* jsonb key order: shorter keys first, equal lengths in code-point order
JsonbLess(k1, k2) ==
  Len(k1) < Len(k2) \/ (Len(k1) = Len(k2) /\ StrLess(k1, k2))

RECURSIVE InsertByKey(_, _)
InsertByKey(sorted, p) ==
  IF sorted = <<>> THEN <<p>>
  ELSE IF JsonbLess(p[1], Head(sorted)[1]) THEN <<p>> \o sorted
  ELSE <<Head(sorted)>> \o InsertByKey(Tail(sorted), p)

RECURSIVE SortByKey(_)
SortByKey(d) ==
  IF d = <<>> THEN <<>>
  ELSE InsertByKey(SortByKey(SubSeq(d, 1, Len(d) - 1)), d[Len(d)])

\* variant of the JSONField round trip that loses the first entry of an object
JsonRoundTripLossy(engine, d) == IF d = <<>> THEN d ELSE Tail(d)

\* a JSONField written and read back: SQLite keeps the text, PostgreSQL
\* (jsonb) returns the keys of an object in its own order
JsonRoundTrip(engine, d) == IF engine = "postgresql" THEN SortByKey(d) ELSE d

\* a NaN among the numbers of a row or of a snapshot
RowHasNaN(r) == IsNaN(r.flowrate) \/ IsNaN(r.pressure) \/ IsNaN(r.temperature)

StatsHaveNaN(a) ==
  \E i \in 1..Len(a.stats_by_type), f \in Range(NUMERIC_FIELDS) :
    LET st == a.stats_by_type[i][2][f]
    IN IsNaN(st.avg) \/ IsNaN(st.min) \/ IsNaN(st.max) \/ IsNaN(st.std)

ScalarsHaveNaN(a) ==
  \E x \in {a.avg_flowrate, a.avg_pressure, a.avg_temperature,
            a.min_flowrate, a.max_flowrate, a.min_pressure, a.max_pressure,
            a.min_temperature, a.max_temperature,
            a.std_flowrate, a.std_pressure, a.std_temperature} : IsNaN(x)

\* SQLite binds NaN as NULL, which a FloatField column rejects
RowsInsertable(engine, rows) ==
  engine = "postgresql" \/ \A i \in 1..Len(rows) : ~RowHasNaN(rows[i])

\* NaN is no JSON number for either database; SQLite rejects it in a column too
SnapshotInsertable(engine, a) ==
  /\ ~StatsHaveNaN(a)
  /\ engine = "postgresql" \/ ~ScalarsHaveNaN(a)

\* AnalysisResult.objects.create(dataset=dataset, **analytics_data): the row
\* as the database returns it afterwards
AnalysisRow(eng, id, a, now) ==
  [dataset |-> id,
   total_count |-> a.total_count,
   avg_flowrate |-> a.avg_flowrate,
   avg_pressure |-> a.avg_pressure,
   avg_temperature |-> a.avg_temperature,
   min_flowrate |-> a.min_flowrate,
   max_flowrate |-> a.max_flowrate,
   min_pressure |-> a.min_pressure,
   max_pressure |-> a.max_pressure,
   min_temperature |-> a.min_temperature,
   max_temperature |-> a.max_temperature,
   std_flowrate |-> a.std_flowrate,
   std_pressure |-> a.std_pressure,
   std_temperature |-> a.std_temperature,
   type_distribution |-> JsonRoundTrip(eng, a.type_distribution),
   stats_by_type |-> JsonRoundTrip(eng, a.stats_by_type),
   computed_at |-> now]

\* the analytics_data dictionary the views build from a stored AnalysisResult
StoredAnalyticsData(analysis) ==
  [total_count |-> analysis.total_count,
   avg_flowrate |-> analysis.avg_flowrate,
   avg_pressure |-> analysis.avg_pressure,
   avg_temperature |-> analysis.avg_temperature,
   min_flowrate |-> analysis.min_flowrate,
   max_flowrate |-> analysis.max_flowrate,
   min_pressure |-> analysis.min_pressure,
   max_pressure |-> analysis.max_pressure,
   min_temperature |-> analysis.min_temperature,
   max_temperature |-> analysis.max_temperature,
   std_flowrate |-> analysis.std_flowrate,
   std_pressure |-> analysis.std_pressure,
   std_temperature |-> analysis.std_temperature,
   type_distribution |-> analysis.type_distribution,
   stats_by_type |-> analysis.stats_by_type]

\* variant of the bulk insert that leaves out the records with a missing number
EquipmentRowsComplete(id, rows) ==
  {[dataset |-> id, pk |-> i, name |-> rows[i].name, type |-> rows[i].type,
    flowrate |-> rows[i].flowrate, pressure |-> rows[i].pressure,
    temperature |-> rows[i].temperature] :
     i \in {k \in 1..Len(rows) : ~RowHasNaN(rows[k])}}

\* Equipment(dataset=dataset, ...) for every parsed record
EquipmentRows(id, rows) ==
  {[dataset |-> id, pk |-> i, name |-> rows[i].name, type |-> rows[i].type,
    flowrate |-> rows[i].flowrate, pressure |-> rows[i].pressure,
    temperature |-> rows[i].temperature] : i \in 1..Len(rows)}

DbUnion(a, b) ==
  [datasets |-> a.datasets \cup b.datasets,
   equipment |-> a.equipment \cup b.equipment,
   analysis |-> a.analysis \cup b.analysis]

\* the tables with a transaction's writes applied
Apply(base, delta) == DeleteDatasets(DbUnion(base, delta.ins), delta.del)

\* variant of upload that writes outside any transaction
NotInTransaction == FALSE

\* upload runs its writes inside transaction.atomic()
InTransaction == TRUE

\* the committed tables after a write of the upload: nothing changes before
\* the commit when the writes are in a transaction
AfterWrite(base, delta) == IF InTransaction THEN base ELSE Apply(base, delta)

\* the writes still pending after a write of the upload
Pending(delta) == IF InTransaction THEN delta ELSE NoDelta

\* the committed tables after the atomic block is left by an exception
AfterRollback(base, delta) == base

\* variant of the eviction that tolerates one dataset above the cap
OverLimitByTwo(o) ==
  IF Len(o) > MAX_DATASETS_PER_USER + 1
  THEN {o[i].id : i \in (MAX_DATASETS_PER_USER + 2)..Len(o)}
  ELSE {}

\* variant of the eviction that deletes from the newest end of the queryset
OverLimitNewest(o) ==
  IF Len(o) > MAX_DATASETS_PER_USER
  THEN {o[i].id : i \in 1..(Len(o) - MAX_DATASETS_PER_USER)}
  ELSE {}

\* the Dataset ids _enforce_dataset_limit deletes, given the user's datasets
\* newest first: user_datasets[max_datasets:] when there are more than the cap
OverLimit(o) ==
  IF Len(o) > MAX_DATASETS_PER_USER
  THEN {o[i].id : i \in (MAX_DATASETS_PER_USER + 1)..Len(o)}
  ELSE {}

\* get_object(): the dataset of the user's queryset with this primary key
OwnDataset(base, user, id) == {d \in DatasetsOf(base, user) : d.id = id}

Response(op, user, id, status, body) ==
  [op |-> op, user |-> user, id |-> id, status |-> status, body |-> body]

NotFound(op, user, id) == Response(op, user, id, 404, <<>>)

\* DatasetListSerializer
DatasetListItem(base, d) ==
  [id |-> d.id, uploaded_by |-> d.uploaded_by, uploaded_at |-> d.uploaded_at,
   row_count |-> d.row_count, has_analysis |-> AnalysisOf(base, d.id) # {}]

(***************************************************************************)
(* Desktop client: AuthManager, APIClient and Application (src/desktop)    *)
(***************************************************************************)
\* number of API calls the model lets the client start
MaxCalls == 3

\* clear_auth: the three keys are removed from the store
ClearAuth == [access_token |-> None, refresh_token |-> None, user |-> None]

\* save_auth(tokens, user) with the tokens and the user of a successful
\* login or registration
SaveAuth(user) ==
  [access_token |-> Some("access"), refresh_token |-> Some("refresh"),
   user |-> Some(user)]

\* is_authenticated: get_access_token() is not None
IsAuthenticated(s) == s.access_token # None

\* what session.request gives: a response with a status code (200 for any
\* success that carries a body), or an exception
Answer(status, raises) == [status |-> status, raises |-> raises]

Answers ==
  {Answer(status, "none") : status \in {200, 204, 400, 401, 500}}
  \cup {Answer(0, e) : e \in {"Timeout", "ConnectionError", "RequestException"}}

\* the answers to a request of the method op: the login and registration
\* endpoints answer a success with a body, never with 204 No Content
AnswersTo(op) ==
  IF op \in {"login", "register"} THEN Answers \ {Answer(204, "none")} ELSE Answers

\* what the refresh endpoint gives: a new access token, a rejection, no answer
RefreshAnswers == {Answer(200, "none"), Answer(401, "none"), Answer(0, "Timeout")}

\* what a call gives its caller: a dictionary (status_code 0 when it carries
\* none) or an APIError (status_code 0 for None)
Result(kind, success, status_code) ==
  [kind |-> kind, success |-> success, status_code |-> status_code]

NoResult == Result("none", FALSE, 0)

\* _make_request on an answer it does not take as the cause of a refresh:
\* APIError for an exception of requests, the error dictionary for a status
\* that is not ok, the body of the response otherwise
Outcome(answer) ==
  IF answer.raises # "none" THEN Result("APIError", FALSE, 0)
  ELSE IF answer.status >= 400 THEN Result("dict", FALSE, answer.status)
  ELSE Result("dict", TRUE, 0)

\* variant of the retry in which the retried request may be retried again
RetryOn401Again == TRUE

\* the retry_on_401 argument of the nested _make_request
RetryOn401OfRetry == FALSE

\* variant of _make_request that emits request_finished on a return only
FinishedOnReturn(result, depth) == IF result.kind = "APIError" THEN 0 ELSE depth

\* request_finished emissions when depth nested _make_request frames are
\* left: one per frame, from its finally clause, whatever the result
Finished(result, depth) == depth

\* variant of logout that clears the credentials only when the request to
\* the server has not raised
AfterLogoutUnlessRaised(s, result) == IF result.kind = "APIError" THEN s ELSE ClearAuth

\* the finally clause of logout
AfterLogout(s, result) == ClearAuth

\* the store after login, register or logout has handled the result of its
\* request; any other method leaves the store alone
AfterCall(op, s, result) ==
  IF op \in {"login", "register"}
  THEN IF result.kind = "dict" /\ result.success
       THEN SaveAuth(IF op = "login" THEN "alice" ELSE "bob")
       ELSE s
  ELSE IF op = "logout" THEN AfterLogout(s, result)
  ELSE s

\* _show_login and _on_logout: the login page, and no main window
LoginPage == [auth_stack |-> "login", main_window |-> FALSE]

\* _on_login_success: the main window, and the login window hidden
MainWindow == [auth_stack |-> "hidden", main_window |-> TRUE]

\* what the widget that submitted the form does with the result: login_success
\* shows the main window, register_success the login page
AfterSubmit(op, result, w) ==
  IF result.kind = "dict" /\ result.success
  THEN IF op = "login" THEN MainWindow
       ELSE IF op = "register" THEN LoginPage
       ELSE w
  ELSE w

NoCall ==
  [pc |-> "idle", op |-> "none", include_auth |-> FALSE, retry_on_401 |-> FALSE,
   depth |-> 0, sends |-> 0, refreshes |-> 0, answer |-> Answer(0, "none"),
   result |-> NoResult, returned |-> NoResult, n |-> 0]

NoSignals ==
  [request_started |-> 0, request_finished |-> 0, auth_required |-> 0,
   error_occurred |-> 0]

(***************************************************************************)
(* State                                                                   *)
(***************************************************************************)
VARIABLES
  stage,       \* how far the pipeline has run on the current input
  file,        \* the file handed to the last parse_file call
  errors,      \* CSVParserService.errors
  warnings,    \* CSVParserService.warnings
  df,          \* the rows parse_file returned
  success,     \* the flag parse_file returned
  analytics,   \* the snapshot compute_analytics returned
  summary,     \* get_summary_response of the snapshot
  chart_data,  \* get_chart_data of the snapshot
  engine,      \* the configured database backend
  db,          \* the committed Dataset, Equipment and AnalysisResult tables
  nextId,      \* the next Dataset primary key
  clock,       \* the latest timestamp handed out
  tx,          \* the upload request in flight, with its uncommitted writes
  response,    \* the response of the last request, until it is delivered
  settings,    \* the QSettings store of the desktop AuthManager
  call,        \* the APIClient call in progress, and the outcome of the last one
  signals,     \* how often each signal of the APIClient has been emitted
  window       \* what the desktop Application shows

pvars == <<stage, file, errors, warnings, df, success, analytics, summary, chart_data>>

dvars == <<engine, db, nextId, clock, tx, response>>

cvars == <<settings, call, signals, window>>

vars == <<pvars, dvars, cvars>>

NoFile == File(TRUE, TRUE, <<>>, <<>>)

\* a CSVParserService and an AnalyticsService, freshly constructed
PipelineInit ==
  /\ stage = "new"
  /\ file = NoFile
  /\ errors = <<>>
  /\ warnings = <<>>
  /\ df = <<>>
  /\ success = FALSE
  /\ analytics = EmptyAnalytics
  /\ summary = GetSummaryResponse(EmptyAnalytics)
  /\ chart_data = GetChartData(EmptyAnalytics)

NoUpload ==
  [pc |-> "idle", user |-> "", file |-> NoFile, rows |-> <<>>, warnings |-> <<>>,
   dataset |-> 0, delta |-> NoDelta]

NoResponse == [op |-> "none", user |-> "", id |-> 0, status |-> 0, body |-> <<>>]

\* an empty database, no request in flight
DatabaseInit ==
  /\ engine \in Engines
  /\ db = EmptyDb
  /\ nextId = 1
  /\ clock = 0
  /\ tx = NoUpload
  /\ response = NoResponse

DatabaseIdle ==
  /\ engine = "sqlite3"
  /\ db = EmptyDb
  /\ nextId = 1
  /\ clock = 0
  /\ tx = NoUpload
  /\ response = NoResponse

\* the desktop client before Application.run: the store is empty or holds
\* the credentials of an earlier session, and no window is shown
ClientInit ==
  /\ settings \in {ClearAuth, SaveAuth("alice")}
  /\ call = NoCall
  /\ signals = NoSignals
  /\ window = [auth_stack |-> "hidden", main_window |-> FALSE]

\* no desktop client is running
ClientIdle ==
  /\ settings = ClearAuth
  /\ call = NoCall
  /\ signals = NoSignals
  /\ window = [auth_stack |-> "hidden", main_window |-> FALSE]

\* variant of the start of parse_file that keeps the messages of earlier calls
ResetMessagesKept(old) == old

\* parse_file starts by emptying the instance's message lists
ResetMessages(old) == <<>>

\* parser.parse_file(f): on a fresh instance any input, on a used instance
\* one of the inputs of ReuseFiles
ParseFileCall ==
  /\ stage \in {"new", "parsed"}
  /\ \E f \in (IF stage = "new" THEN CsvFiles ELSE ReuseFiles) :
       LET r == ParseFile(f)
       IN /\ stage' = "parsed"
          /\ file' = f
          /\ errors' = ResetMessages(errors) \o r.errors
          /\ warnings' = ResetMessages(warnings) \o r.warnings
          /\ df' = r.rows
          /\ success' = r.success
          /\ UNCHANGED <<analytics, summary, chart_data, dvars, cvars>>

\* analytics_service.compute_analytics over the rows just ingested
ComputeAnalyticsCall ==
  /\ stage = "parsed"
  /\ stage' = "computed"
  /\ analytics' = ComputeAnalytics(df)
  /\ UNCHANGED <<file, errors, warnings, df, success, summary, chart_data, dvars, cvars>>

\* get_summary_response and get_chart_data of the computed snapshot
ReshapeCall ==
  /\ stage = "computed"
  /\ stage' = "shaped"
  /\ summary' = GetSummaryResponse(analytics)
  /\ chart_data' = GetChartData(analytics)
  /\ UNCHANGED <<file, errors, warnings, df, success, analytics, dvars, cvars>>

PipelineNext == ParseFileCall \/ ComputeAnalyticsCall \/ ReshapeCall

\* the services alone: nothing is stored and no request is made
PipelineStart == PipelineInit /\ DatabaseIdle /\ ClientIdle

SpecPipeline == PipelineStart /\ [][PipelineNext]_vars

(***************************************************************************)
(* DatasetViewSet and EquipmentViewSet (views.py)                          *)
(***************************************************************************)
Idle == response = NoResponse

\* the tables as the upload in flight sees them
TxView == Apply(db, tx.delta)

\* upload, up to the atomic block: serializer validation and parse_file
UploadRequest ==
  /\ Idle /\ tx.pc = "idle" /\ nextId <= MaxUploads
  /\ \E user \in Users, f \in UploadFiles, is_valid \in BOOLEAN :
       LET r == ParseFile(f)
       IN IF ~is_valid
          THEN /\ response' = Response("upload", user, 0, 400, <<>>)
               /\ tx' = tx
          ELSE IF ~r.success
          THEN /\ response' = Response("upload", user, 0, 400,
                                       [errors |-> r.errors, warnings |-> r.warnings])
               /\ tx' = tx
          ELSE /\ response' = response
               /\ tx' = [pc |-> "begun", user |-> user, file |-> f, rows |-> r.rows,
                         warnings |-> r.warnings, dataset |-> 0, delta |-> NoDelta]
  /\ UNCHANGED <<pvars, cvars, engine, db, nextId, clock>>

\* Dataset.objects.create(...): uploaded_at is the current time
UploadCreateDataset ==
  /\ Idle /\ tx.pc = "begun"
  /\ \E now \in {clock + 1} \cup (IF clock > 0 THEN {clock} ELSE {}) :
       LET dataset == [id |-> nextId, uploaded_by |-> tx.user, uploaded_at |-> now,
                       row_count |-> Len(tx.rows), file |-> tx.file]
           delta == [tx.delta EXCEPT !.ins.datasets = @ \cup {dataset}]
       IN /\ clock' = now
          /\ nextId' = nextId + 1
          /\ db' = AfterWrite(db, delta)
          /\ tx' = [tx EXCEPT !.pc = "created", !.dataset = nextId,
                              !.delta = Pending(delta)]
  /\ UNCHANGED <<pvars, cvars, engine, response>>

\* Equipment.objects.bulk_create(equipment_objects)
UploadBulkCreate ==
  /\ Idle /\ tx.pc = "created"
  /\ RowsInsertable(engine, tx.rows)
  /\ LET delta == [tx.delta EXCEPT
                     !.ins.equipment = @ \cup EquipmentRows(tx.dataset, tx.rows)]
     IN /\ db' = AfterWrite(db, delta)
        /\ tx' = [tx EXCEPT !.pc = "inserted", !.delta = Pending(delta)]
  /\ UNCHANGED <<pvars, cvars, engine, nextId, clock, response>>

\* compute_analytics(dataset.equipment_items.all()) and AnalysisResult.objects.create
UploadStoreAnalysis ==
  /\ Idle /\ tx.pc = "inserted"
  /\ \E rows \in EquipmentItems(TxView, tx.dataset) :
       LET analytics_data == ComputeAnalytics(rows)
           delta == [tx.delta EXCEPT
                       !.ins.analysis =
                          @ \cup {AnalysisRow(engine, tx.dataset, analytics_data, clock)}]
       IN /\ SnapshotInsertable(engine, analytics_data)
          /\ db' = AfterWrite(db, delta)
          /\ tx' = [tx EXCEPT !.pc = "stored", !.delta = Pending(delta)]
  /\ UNCHANGED <<pvars, cvars, engine, nextId, clock, response>>

\* _enforce_dataset_limit(request.user)
UploadEnforceLimit ==
  /\ Idle /\ tx.pc = "stored"
  /\ \E user_datasets \in NewestFirst(DatasetsOf(TxView, tx.user)) :
       LET delta == [tx.delta EXCEPT !.del = @ \cup OverLimit(user_datasets)]
       IN /\ db' = AfterWrite(db, delta)
          /\ tx' = [tx EXCEPT !.pc = "enforced", !.delta = Pending(delta)]
  /\ UNCHANGED <<pvars, cvars, engine, nextId, clock, response>>

\* the atomic block is left normally: commit, 201 Created
UploadCommit ==
  /\ Idle /\ tx.pc = "enforced"
  /\ db' = Apply(db, tx.delta)
  /\ response' = Response("upload", tx.user, tx.dataset, 201,
                          [dataset_id |-> tx.dataset, warnings |-> tx.warnings])
  /\ tx' = NoUpload
  /\ UNCHANGED <<pvars, cvars, engine, nextId, clock>>

\* a statement of the atomic block raises: rollback, 500
UploadFail ==
  /\ Idle /\ tx.pc \in {"begun", "created", "inserted", "stored", "enforced"}
  /\ db' = AfterRollback(db, tx.delta)
  /\ response' = Response("upload", tx.user, tx.dataset, 500, <<>>)
  /\ tx' = NoUpload
  /\ UNCHANGED <<pvars, cvars, engine, nextId, clock>>

\* destroy: delete the dataset (and, by cascade, its rows and snapshot)
Destroy ==
  /\ Idle
  /\ \E user \in Users, id \in DatasetIds :
       IF OwnDataset(db, user, id) = {}
       THEN /\ response' = NotFound("destroy", user, id)
            /\ db' = db
       ELSE /\ response' = Response("destroy", user, id, 204, <<>>)
            /\ db' = DeleteDatasets(db, {id})
  /\ UNCHANGED <<pvars, cvars, engine, nextId, clock, tx>>
\* no response is awaiting delivery and no upload is in flight
Quiet == Idle /\ tx.pc = "idle"

\* list: the datasets of the requesting user
ListAnswer(base, user) ==
  LET queryset == DatasetsOf(base, user)
  IN Response("list", user, 0, 200,
       [count |-> Cardinality(queryset),
        results |-> {DatasetListItem(base, d) : d \in queryset}])

List ==
  /\ Quiet
  /\ \E user \in Users : response' = ListAnswer(db, user)
  /\ UNCHANGED <<pvars, cvars, engine, db, nextId, clock, tx>>

\* retrieve: one dataset with its rows and snapshot (DatasetDetailSerializer)
RetrieveAnswer(base, user, id) ==
  IF OwnDataset(base, user, id) = {}
  THEN NotFound("retrieve", user, id)
  ELSE Response("retrieve", user, id, 200,
         [dataset |-> OwnDataset(base, user, id),
          equipment_items |-> EquipmentOf(base, id),
          analysis |-> AnalysisOf(base, id)])

Retrieve ==
  /\ Quiet
  /\ \E user \in Users, id \in DatasetIds : response' = RetrieveAnswer(db, user, id)
  /\ UNCHANGED <<pvars, cvars, engine, db, nextId, clock, tx>>

\* the body of the analytics response for a snapshot
AnalyticsBody(id, analytics_data, computed_at) ==
  [dataset_id |-> id,
   summary |-> GetSummaryResponse(analytics_data),
   chart_data |-> GetChartData(analytics_data),
   computed_at |-> computed_at]

\* analytics: from the stored snapshot, or computed on the fly when none is
\* stored (the rows come back in one of the orders the database may use)
AnalyticsAnswers(base, user, id) ==
  IF OwnDataset(base, user, id) = {}
  THEN {NotFound("analytics", user, id)}
  ELSE IF AnalysisOf(base, id) # {}
  THEN {Response("analytics", user, id, 200,
          AnalyticsBody(id, StoredAnalyticsData(analysis), Some(analysis.computed_at))) :
          analysis \in AnalysisOf(base, id)}
  ELSE {Response("analytics", user, id, 200,
          AnalyticsBody(id, ComputeAnalytics(rows), None)) :
          rows \in EquipmentItems(base, id)}

\* variant of the on-the-fly branch that stores the snapshot it computed
AfterOnTheFlyStored(base, eng, id, now) ==
  [base EXCEPT !.analysis =
     @ \cup {AnalysisRow(eng, id,
               ComputeAnalytics(CHOOSE rows \in EquipmentItems(base, id) : TRUE), now)}]

\* the tables after the on-the-fly branch: the computed snapshot is returned,
\* no AnalysisResult is created
AfterOnTheFly(base, eng, id, now) == base

Analytics ==
  /\ Quiet
  /\ \E user \in Users, id \in DatasetIds :
       /\ response' \in AnalyticsAnswers(db, user, id)
       /\ db' = IF OwnDataset(db, user, id) # {} /\ AnalysisOf(db, id) = {}
                THEN AfterOnTheFly(db, engine, id, clock)
                ELSE db
  /\ UNCHANGED <<pvars, cvars, engine, nextId, clock, tx>>

\* equipment: the rows of one dataset
EquipmentAnswer(base, user, id) ==
  IF OwnDataset(base, user, id) = {}
  THEN NotFound("equipment", user, id)
  ELSE Response("equipment", user, id, 200,
         [dataset_id |-> id,
          count |-> Cardinality(EquipmentOf(base, id)),
          equipment |-> EquipmentOf(base, id)])

EquipmentList ==
  /\ Quiet
  /\ \E user \in Users, id \in DatasetIds : response' = EquipmentAnswer(db, user, id)
  /\ UNCHANGED <<pvars, cvars, engine, db, nextId, clock, tx>>

\* pdf: the report is generated from the snapshot (stored, or computed on the
\* fly) and the rows; a failure of the generator is answered 500
PdfAnswers(base, user, id) ==
  IF OwnDataset(base, user, id) = {}
  THEN {NotFound("pdf", user, id)}
  ELSE {Response("pdf", user, id, 500, <<>>)}
       \cup {Response("pdf", user, id, 200,
               [analytics |-> IF AnalysisOf(base, id) # {}
                              THEN StoredAnalyticsData(
                                     CHOOSE a \in AnalysisOf(base, id) : TRUE)
                              ELSE ComputeAnalytics(rows),
                equipment_data |-> EquipmentOf(base, id)]) :
               rows \in EquipmentItems(base, id)}

GeneratePdf ==
  /\ Quiet
  /\ \E user \in Users, id \in DatasetIds :
       /\ response' \in PdfAnswers(db, user, id)
       /\ db' = IF OwnDataset(db, user, id) # {} /\ AnalysisOf(db, id) = {}
                THEN AfterOnTheFly(db, engine, id, clock)
                ELSE db
  /\ UNCHANGED <<pvars, cvars, engine, nextId, clock, tx>>

\* Equipment.objects.filter(dataset__in=user_datasets)
EquipmentIn(base, datasets) ==
  {e \in base.equipment : e.dataset \in {d.id : d \in datasets}}

\* dashboard: analytics over the rows of all datasets of the user
DashboardAnswers(base, user) ==
  LET user_datasets == DatasetsOf(base, user)
      all_equipment == EquipmentIn(base, user_datasets)
  IN IF user_datasets = {}
     THEN {Response("dashboard", user, 0, 200,
             [datasets_count |-> 0, total_equipment |-> 0,
              summary |-> None, chart_data |-> None])}
     ELSE IF all_equipment = {}
     THEN {Response("dashboard", user, 0, 200,
             [datasets_count |-> Cardinality(user_datasets), total_equipment |-> 0,
              summary |-> None, chart_data |-> None])}
     ELSE {Response("dashboard", user, 0, 200,
             [datasets_count |-> Cardinality(user_datasets),
              total_equipment |-> Cardinality(all_equipment),
              summary |-> Some(GetSummaryResponse(ComputeAnalytics(ValuesOf(o)))),
              chart_data |-> Some(GetChartData(ComputeAnalytics(ValuesOf(o))))]) :
             o \in ByName(all_equipment)}

Dashboard ==
  /\ Quiet
  /\ \E user \in Users : response' \in DashboardAnswers(db, user)
  /\ UNCHANGED <<pvars, cvars, engine, db, nextId, clock, tx>>

\* EquipmentViewSet.get_queryset: Equipment.objects.filter(dataset__uploaded_by=user)
EquipmentQueryset(base, user) == EquipmentIn(base, DatasetsOf(base, user))

\* EquipmentViewSet.list with its optional dataset and type filters
\* (id = 0 and type = None stand for an absent parameter)
EquipmentViewAnswers(base, user, id) ==
  LET queryset == EquipmentQueryset(base, user)
      by_dataset == IF id # 0 THEN {e \in queryset : e.dataset = id} ELSE queryset
      by_type(equipment_type) ==
        IF equipment_type # None
        THEN {e \in by_dataset : Lower(e.type) = Lower(equipment_type[1])}
        ELSE by_dataset
  IN {Response("equipment-list", user, id, 200,
        [count |-> Cardinality(by_type(t)), results |-> by_type(t)]) :
        t \in {None, Some(Lower(Pump))}}

EquipmentViewList ==
  /\ Quiet
  /\ \E user \in Users, id \in {0} \cup DatasetIds :
       response' \in EquipmentViewAnswers(db, user, id)
  /\ UNCHANGED <<pvars, cvars, engine, db, nextId, clock, tx>>

\* the admin site deletes the stored snapshot of a dataset (AnalysisResultAdmin)
AdminDeleteAnalysis ==
  /\ Idle
  /\ \E id \in DatasetIds :
       /\ AnalysisOf(db, id) # {}
       /\ db' = [db EXCEPT !.analysis = {a \in @ : a.dataset # id}]
  /\ UNCHANGED <<pvars, cvars, engine, nextId, clock, tx, response>>

\* the client receives the response
Deliver ==
  /\ ~Idle
  /\ response' = NoResponse
  /\ UNCHANGED <<pvars, cvars, engine, db, nextId, clock, tx>>

\* Requests that only read are answered from the committed tables, which no
\* step of an upload in flight changes before its commit; they are taken
\* between uploads (Quiet).
Next ==
  \/ UploadRequest \/ UploadCreateDataset \/ UploadBulkCreate
  \/ UploadStoreAnalysis \/ UploadEnforceLimit \/ UploadCommit \/ UploadFail
  \/ Destroy
  \/ List \/ Retrieve \/ Analytics \/ EquipmentList \/ GeneratePdf
  \/ Dashboard \/ EquipmentViewList
  \/ Deliver

Init == PipelineInit /\ DatabaseInit /\ ClientIdle

Spec == Init /\ [][Next]_vars

\* the API together with the admin site
NextAdmin == Next \/ AdminDeleteAnalysis

SpecAdmin == Init /\ [][NextAdmin]_vars

(***************************************************************************)
(* Desktop client: the calls of the APIClient and the events of the        *)
(* Application (api_client.py, main.py, login_widget.py,                   *)
(* register_widget.py, main_window.py)                                     *)
(***************************************************************************)
\* Application.run: the main window when the store holds an access token,
\* the login page otherwise
Run ==
  /\ call.pc = "idle"
  /\ window.auth_stack = "hidden" /\ ~window.main_window
  /\ window' = IF IsAuthenticated(settings) THEN MainWindow ELSE LoginPage
  /\ UNCHANGED <<pvars, dvars, settings, call, signals>>

\* _show_register, from the link of the login page
ShowRegister ==
  /\ call.pc = "idle"
  /\ window.auth_stack = "login"
  /\ window' = [window EXCEPT !.auth_stack = "register"]
  /\ UNCHANGED <<pvars, dvars, settings, call, signals>>

\* _show_login, from the link of the registration page
ShowLogin ==
  /\ call.pc = "idle"
  /\ window.auth_stack = "register"
  /\ window' = LoginPage
  /\ UNCHANGED <<pvars, dvars, settings, call, signals>>

\* MainWindow._on_logout and Application._on_logout: auth_manager.logout()
\* and the login page in place of the main window
LogoutClick ==
  /\ call.pc = "idle"
  /\ window.main_window
  /\ settings' = ClearAuth
  /\ window' = LoginPage
  /\ UNCHANGED <<pvars, dvars, call, signals>>

\* _make_request up to session.request: request_started is emitted and the
\* request is sent
StartRequest(op, include_auth) ==
  /\ call.pc = "idle"
  /\ call.n < MaxCalls
  /\ signals' = [signals EXCEPT !.request_started = @ + 1]
  /\ call' = [NoCall EXCEPT !.pc = "request", !.op = op,
                            !.include_auth = include_auth, !.retry_on_401 = TRUE,
                            !.depth = 1, !.sends = 1, !.n = call.n + 1]
  /\ UNCHANGED <<pvars, dvars, settings, window>>

\* LoginWidget._handle_submit: api_client.login, sent without the token
LoginSubmit == window.auth_stack = "login" /\ StartRequest("login", FALSE)

\* RegisterWidget._handle_submit: api_client.register, sent without the token
RegisterSubmit == window.auth_stack = "register" /\ StartRequest("register", FALSE)

\* a page of the main window loads its data: a request with the token
Fetch == window.main_window /\ StartRequest("fetch", TRUE)

\* APIClient.logout: the request is made only when a refresh token is stored
ApiLogout ==
  IF settings.refresh_token # None
  THEN StartRequest("logout", TRUE)
  ELSE /\ call.pc = "idle"
       /\ call.n < MaxCalls
       /\ settings' = AfterLogout(settings, NoResult)
       /\ call' = [NoCall EXCEPT !.op = "logout", !.returned = Result("dict", TRUE, 0),
                                 !.n = call.n + 1]
       /\ UNCHANGED <<pvars, dvars, signals, window>>

\* the frames of _make_request are left with result, the API method handles
\* it and the widget that made the call reacts: s is the store and sig are the
\* signal counts when the innermost frame is left
Complete(s, sig, answer, result) ==
  /\ settings' = AfterCall(call.op, s, result)
  /\ signals' = [sig EXCEPT !.request_finished = @ + Finished(result, call.depth)]
  /\ window' = AfterSubmit(call.op, result, window)
  /\ call' = [call EXCEPT !.pc = "idle", !.answer = answer, !.result = result,
                          !.returned = IF call.op = "logout"
                                       THEN Result("dict", TRUE, 0) ELSE result]

\* the session is taken as expired: clear_auth, auth_required, APIError 401
SessionExpired(answer) ==
  Complete(ClearAuth, [signals EXCEPT !.auth_required = @ + 1], answer,
           Result("APIError", FALSE, 401))

\* session.request returns or raises: a 401 to a first request sent with the
\* token starts the refresh, any other answer ends the call
Respond ==
  /\ call.pc = "request"
  /\ \E answer \in AnswersTo(call.op) :
       IF answer.status = 401 /\ call.retry_on_401 /\ call.include_auth
       THEN IF settings.refresh_token = None
            THEN SessionExpired(answer)
            ELSE /\ call' = [call EXCEPT !.pc = "refresh", !.refreshes = @ + 1,
                                         !.answer = answer]
                 /\ UNCHANGED <<settings, signals, window>>
       ELSE Complete(settings,
                     [signals EXCEPT !.error_occurred =
                                        @ + IF answer.raises # "none" THEN 1 ELSE 0],
                     answer, Outcome(answer))
  /\ UNCHANGED <<pvars, dvars>>

\* _refresh_token gets its answer: with a new access token the request is
\* sent again by a nested _make_request, otherwise the session has expired
RefreshRespond ==
  /\ call.pc = "refresh"
  /\ \E answer \in RefreshAnswers :
       IF answer = Answer(200, "none")
       THEN /\ settings' = [settings EXCEPT !.access_token = Some("refreshed")]
            /\ signals' = [signals EXCEPT !.request_started = @ + 1]
            /\ call' = [call EXCEPT !.pc = "request", !.depth = @ + 1, !.sends = @ + 1,
                                    !.retry_on_401 = RetryOn401OfRetry]
            /\ UNCHANGED window
       ELSE SessionExpired(call.answer)
  /\ UNCHANGED <<pvars, dvars>>

\* the events of the Application between its start and a logout
NextApp ==
  \/ Run \/ ShowRegister \/ ShowLogin \/ LoginSubmit \/ RegisterSubmit
  \/ Respond \/ LogoutClick

\* the Application together with the requests of the main window and logout
\* of the APIClient
NextClient == NextApp \/ Fetch \/ ApiLogout \/ RefreshRespond

\* the desktop client alone: no parser, no database
ClientStart == PipelineInit /\ DatabaseIdle /\ ClientInit

SpecApp == ClientStart /\ [][NextApp]_vars

SpecClient == ClientStart /\ [][NextClient]_vars

\* every request is sent with timeout=30: session.request and session.post
\* return or raise
SpecClientFair == SpecClient /\ WF_vars(Respond) /\ WF_vars(RefreshRespond)

(***************************************************************************)
(* Properties of the ingestion and aggregation pipeline (SpecPipeline)     *)
(***************************************************************************)
\* the frame parse_file hands to _validate_data
CleanedFrame(f) ==
  LET raw == ReadCsv(f)
      vc == ValidateColumns(raw.columns)
  IN CleanData([columns |-> vc.columns, rows |-> raw.rows])

\* the drop count the warnings report (0 when no drop is reported)
DroppedCount(ws) ==
  LET hits == {i \in 1..Len(ws) : ws[i].text = "Dropped rows with missing numeric values."}
  IN IF hits = {} THEN 0 ELSE ws[SetMin(hits)].count

\* C1: whenever parse_file returns success=True, no returned row has a
\* missing flowrate, pressure or temperature, and the number of returned rows
\* is the cleaned row count minus the drop count of the warning.
C1_ReturnedRowsComplete ==
  (stage = "parsed" /\ success) =>
    /\ \A i \in 1..Len(df) : ~RowHasNaN(df[i])
    /\ Len(df) = Len(CleanedFrame(file).rows) - DroppedCount(warnings)

\* the number of rows of type t
TypeCount(rows, t) == Cardinality({i \in 1..Len(rows) : rows[i].type = t})

RECURSIVE SumOfField(_, _, _)
SumOfField(rows, idx, field) ==
  IF idx = {} THEN Zero
  ELSE LET i == CHOOSE j \in idx : \A k \in idx : k <= j
       IN RatAdd(SumOfField(rows, idx \ {i}, field), rows[i][field])

\* a is the average of field over the rows of type t that have a value
IsAverageOf(a, rows, t, field) ==
  LET idx == {i \in 1..Len(rows) : rows[i].type = t /\ ~IsNaN(rows[i][field])}
  IN IF idx = {} THEN IsNaN(a)
     ELSE a = RatDivInt(SumOfField(rows, idx, field), Cardinality(idx))

\* each chart is aligned with its own labels: the bar series carry the
\* averages of the types the bar labels name, the pie data their row counts
ChartsAligned(chart, rows, bar_labels, pie_labels) ==
  /\ Len(chart.pie_chart.data) = Len(pie_labels)
  /\ \A i \in 1..Len(pie_labels) :
       chart.pie_chart.data[i] = TypeCount(rows, pie_labels[i])
  /\ \A k \in 1..Len(NUMERIC_FIELDS) :
       /\ Len(chart.bar_chart.datasets[k].data) = Len(bar_labels)
       /\ \A i \in 1..Len(bar_labels) :
            IsAverageOf(chart.bar_chart.datasets[k].data[i], rows,
                        bar_labels[i], NUMERIC_FIELDS[k])

\* C2 as stated: bar_chart.labels and pie_chart.labels are the same sequence,
\* so that position i of every bar series is the average of the type
\* pie_chart.labels[i] and pie_chart.data[i] is that type's row count.
C2_LabelsSameSequence ==
  stage = "shaped" =>
    /\ chart_data.bar_chart.labels = chart_data.pie_chart.labels
    /\ ChartsAligned(chart_data, df, chart_data.pie_chart.labels,
                     chart_data.pie_chart.labels)

\* C2, amended: bar_chart.labels and pie_chart.labels name the same types,
\* each type once, possibly in different orders (first appearance for the
\* bars, descending count for the pie); every bar series is aligned with
\* bar_chart.labels and pie_chart.data with pie_chart.labels.
C2_LabelsSameTypes ==
  stage = "shaped" =>
    LET bar_labels == chart_data.bar_chart.labels
        pie_labels == chart_data.pie_chart.labels
        types == {df[i].type : i \in 1..Len(df)}
    IN /\ Range(bar_labels) = types
       /\ Range(pie_labels) = types
       /\ Len(bar_labels) = Cardinality(types)
       /\ Len(pie_labels) = Cardinality(types)
       /\ ChartsAligned(chart_data, df, bar_labels, pie_labels)

\* the two charts list several types in different orders
C2_Witness ==
  /\ stage = "shaped"
  /\ Len(chart_data.bar_chart.labels) > 1
  /\ chart_data.bar_chart.labels # chart_data.pie_chart.labels

\* C10: compute_analytics on an empty row collection returns the canonical
\* empty snapshot: total_count 0, every avg/min/max/std field 0.0, and both
\* mappings empty.
C10_EmptySnapshot ==
  (stage \in {"computed", "shaped"} /\ df = <<>>) =>
    /\ analytics.total_count = 0
    /\ \A k \in {"avg_flowrate", "avg_pressure", "avg_temperature",
                 "min_flowrate", "max_flowrate", "min_pressure", "max_pressure",
                 "min_temperature", "max_temperature",
                 "std_flowrate", "std_pressure", "std_temperature"} :
         analytics[k] = [n |-> 0, d |-> 1]
    /\ analytics.type_distribution = <<>>
    /\ analytics.stats_by_type = <<>>

\* compute_analytics has run on an empty row collection
C10_Witness == stage = "computed" /\ df = <<>> /\ analytics.total_count = 0

\* the sum of a list of counts
RECURSIVE SumInts(_)
SumInts(xs) == IF xs = <<>> THEN 0 ELSE Head(xs) + SumInts(Tail(xs))

\* the counts of a distribution, in the order of its keys
CountsOf(d) == [i \in 1..Len(d) |-> d[i][2]]

\* C11: for every snapshot returned by compute_analytics, on an empty row
\* collection or not, the values of type_distribution sum to total_count, and
\* total_count is the number of input rows.
C11_DistributionSumsToTotal ==
  stage \in {"computed", "shaped"} =>
    /\ SumInts(CountsOf(analytics.type_distribution)) = analytics.total_count
    /\ analytics.total_count = Len(df)

\* a snapshot of three rows of two types
C11_Witness ==
  /\ stage = "computed"
  /\ Len(df) = 3
  /\ Len(analytics.type_distribution) = 2

\* the rows of type t alone
OnlyOfType(rows, t) == SelectSeq(rows, LAMBDA r : r.type = t)

\* the overall statistics of one field, as a snapshot carries them
OverallStats(a, field) ==
  CASE field = "flowrate" ->
         [avg |-> a.avg_flowrate, min |-> a.min_flowrate,
          max |-> a.max_flowrate, std |-> a.std_flowrate]
    [] field = "pressure" ->
         [avg |-> a.avg_pressure, min |-> a.min_pressure,
          max |-> a.max_pressure, std |-> a.std_pressure]
    [] field = "temperature" ->
         [avg |-> a.avg_temperature, min |-> a.min_temperature,
          max |-> a.max_temperature, std |-> a.std_temperature]

\* C12: for every non-empty row collection, stats_by_type and
\* type_distribution have the same keys, one per distinct type of the rows;
\* the count of an entry is type_distribution[type], and its avg, min, max and
\* std of each field are those the overall computation yields on the rows of
\* that type alone.
C12_StatsByTypeRestricted ==
  (stage \in {"computed", "shaped"} /\ df # <<>>) =>
    LET td == analytics.type_distribution
        st == analytics.stats_by_type
    IN /\ Range(Keys(st)) = Range(TypesOf(df))
       /\ Range(Keys(td)) = Range(Keys(st))
       /\ Len(st) = Cardinality(Range(Keys(st)))
       /\ Len(td) = Cardinality(Range(Keys(td)))
       /\ \A i \in 1..Len(st) :
            LET t == st[i][1]
                only == ComputeAnalytics(OnlyOfType(df, t))
            IN /\ st[i][2].count = Get(td, t)
               /\ \A k \in 1..Len(NUMERIC_FIELDS) :
                    st[i][2][NUMERIC_FIELDS[k]] = OverallStats(only, NUMERIC_FIELDS[k])

\* a snapshot of two types, one of them with two rows of different flowrate
C12_Witness ==
  /\ stage = "computed"
  /\ Len(analytics.stats_by_type) = 2
  /\ \E i \in 1..Len(analytics.stats_by_type) :
       LET e == analytics.stats_by_type[i][2]
       IN e.count = 2 /\ RatLess(e.flowrate.min, e.flowrate.max)

\* x <= y on floats
RatLeq(x, y) == ~IsNaN(x) /\ ~IsNaN(y) /\ x.n * y.d <= y.n * x.d

\* min <= avg <= max in the statistics s of one field
Ordered(s) == RatLeq(s.min, s.avg) /\ RatLeq(s.avg, s.max)

\* the sum of xs in the reals
RECURSIVE RealSum(_)
RealSum(xs) ==
  IF xs = <<>> THEN Zero
  ELSE LET rest == RealSum(SubSeq(xs, 1, Len(xs) - 1))
           last == xs[Len(xs)]
       IN Rat(rest.n * last.d + last.n * rest.d, rest.d * last.d)

\* every partial sum of xs, taken in order, is a float: the running sum of
\* mean() is computed without rounding
SumIsExact(xs) ==
  \A k \in 1..Len(xs) :
    Fl(RealSum(SubSeq(xs, 1, k))) = RealSum(SubSeq(xs, 1, k))

\* avg lies no further outside [min, max] than the rounding of a sum of count
\* floats can carry it: count * 2^(1 - FloatBits) * max(|min|, |max|)
NearlyOrdered(s, count) ==
  LET big == IF Abs(s.min.n) * s.max.d >= Abs(s.max.n) * s.min.d
             THEN Rat(Abs(s.min.n), s.min.d) ELSE Rat(Abs(s.max.n), s.max.d)
      slack == Rat(count * 2 * big.n, Pow2(FloatBits) * big.d)
      low == Rat(s.min.n * slack.d - slack.n * s.min.d, s.min.d * slack.d)
      high == Rat(s.max.n * slack.d + slack.n * s.max.d, s.max.d * slack.d)
  IN RatLeq(low, s.avg) /\ RatLeq(s.avg, high)

\* the row sets a snapshot reports statistics of, each with the statistics
\* reported for field: the whole collection and the rows of each type
Reported(a, rows, field) ==
  {[rows |-> rows, stats |-> OverallStats(a, field)]}
  \cup {[rows |-> OnlyOfType(rows, a.stats_by_type[i][1]),
         stats |-> a.stats_by_type[i][2][field]] :
           i \in 1..Len(a.stats_by_type)}

\* a computed snapshot of a non-empty row collection with no missing numeric field
CompleteRows ==
  /\ stage \in {"computed", "shaped"}
  /\ df # <<>>
  /\ \A i \in 1..Len(df) : ~RowHasNaN(df[i])

\* C13 as stated: for every non-empty row collection with no missing numeric
\* field, min <= avg <= max for each of flowrate, pressure and temperature,
\* overall and in every entry of stats_by_type.
C13_MinAvgMax ==
  CompleteRows =>
    \A k \in 1..Len(NUMERIC_FIELDS) :
      \A x \in Reported(analytics, df, NUMERIC_FIELDS[k]) : Ordered(x.stats)

\* C13, amended: for every non-empty row collection with no missing numeric
\* field, overall and in every entry of stats_by_type, min <= max; min <= avg
\* <= max when the running sum of the values is free of rounding; and in
\* every case avg is no further outside [min, max] than the rounding of the
\* sum allows.
C13_MinAvgMaxUpToRounding ==
  CompleteRows =>
    \A k \in 1..Len(NUMERIC_FIELDS) :
      \A x \in Reported(analytics, df, NUMERIC_FIELDS[k]) :
        /\ RatLeq(x.stats.min, x.stats.max)
        /\ SumIsExact(Column(x.rows, NUMERIC_FIELDS[k])) => Ordered(x.stats)
        /\ NearlyOrdered(x.stats, Len(x.rows))

\* three complete rows whose flowrates differ and add up without rounding
C13_Witness ==
  /\ CompleteRows
  /\ stage = "computed"
  /\ Len(df) = 3
  /\ SumIsExact(Column(df, "flowrate"))
  /\ RatLess(analytics.min_flowrate, analytics.avg_flowrate)
  /\ RatLess(analytics.avg_flowrate, analytics.max_flowrate)

\* C14: the standard deviation reported for a field is exactly 0.0 whenever
\* it is computed over exactly one row: the three overall std fields when the
\* collection has one row, and the std of every field of every type that has
\* exactly one row.
C14_StdOfOneRowIsZero ==
  stage \in {"computed", "shaped"} =>
    \A k \in 1..Len(NUMERIC_FIELDS) :
      \A x \in Reported(analytics, df, NUMERIC_FIELDS[k]) :
        Len(x.rows) = 1 => x.stats.std = Zero

\* a type with one row beside a type with two rows of different flowrate
C14_Witness ==
  /\ stage = "computed"
  /\ Len(df) = 3
  /\ \E i, j \in 1..Len(analytics.stats_by_type) :
       /\ analytics.stats_by_type[i][2].count = 1
       /\ analytics.stats_by_type[i][2].flowrate.std = Zero
       /\ analytics.stats_by_type[j][2].count = 2
       /\ RatLess(Zero, analytics.stats_by_type[j][2].flowrate.std)

\* C15: for every snapshot produced by compute_analytics, the pie chart of
\* get_chart_data has as labels exactly the keys of type_distribution, as
\* many data values as labels, and data values that sum to total_count.
C15_PieSumsToTotal ==
  stage = "shaped" =>
    /\ chart_data.pie_chart.labels = Keys(analytics.type_distribution)
    /\ Len(chart_data.pie_chart.labels) = Len(chart_data.pie_chart.data)
    /\ SumInts(chart_data.pie_chart.data) = analytics.total_count

\* the pie chart of a snapshot of three rows of two types
C15_Witness ==
  /\ stage = "shaped"
  /\ analytics.total_count = 3
  /\ Len(chart_data.pie_chart.labels) = 2
  /\ chart_data.pie_chart.data = <<2, 1>>

\* r is x rounded to two decimals: a whole number of hundredths, none nearer to x
IsRounded2(r, x) ==
  IF IsNaN(x) THEN IsNaN(r)
  ELSE /\ ~IsNaN(r)
       /\ 100 % r.d = 0
       /\ 200 * Abs(r.n * x.d - x.n * r.d) <= r.d * x.d

\* C16: get_summary_response leaves the snapshot it is given as it was; the
\* summary's total_count, type_distribution and stats_by_type are those of
\* the snapshot, unrounded; equipment_types is the list of the keys of
\* type_distribution; the averages and the ranges are the snapshot's values
\* rounded to two decimals.
C16_SummaryIsPureView ==
  [][(stage = "computed" /\ stage' = "shaped") =>
       /\ analytics' = analytics
       /\ summary'.total_count = analytics.total_count
       /\ summary'.type_distribution = analytics.type_distribution
       /\ summary'.stats_by_type = analytics.stats_by_type
       /\ summary'.equipment_types = Keys(analytics.type_distribution)
       /\ \A k \in 1..Len(NUMERIC_FIELDS) :
            LET f == NUMERIC_FIELDS[k]
                overall == OverallStats(analytics, f)
            IN /\ IsRounded2(summary'.averages[f], overall.avg)
               /\ IsRounded2(summary'.ranges[f].min, overall.min)
               /\ IsRounded2(summary'.ranges[f].max, overall.max)]_vars

\* a summary whose average temperature differs from the snapshot's by the
\* rounding, beside statistics by type passed through
C16_Witness ==
  /\ stage = "shaped"
  /\ analytics.total_count = 3
  /\ summary.averages.temperature # analytics.avg_temperature
  /\ summary.stats_by_type = analytics.stats_by_type
  /\ summary.stats_by_type # <<>>

\* the positions of the headers equal to col once lower-cased and trimmed
HeadersFor(header, col) ==
  {j \in 1..Len(header) : Strip(Lower(header[j])) = Lower(col)}

\* for every required column, the positions of the headers that stand for it
Standing(header) ==
  [col \in Range(REQUIRED_COLUMNS) |-> HeadersFor(header, col)]

\* the required columns no header stands for, in the order of REQUIRED_COLUMNS
MissingColumns(st) == SelectSeq(REQUIRED_COLUMNS, LAMBDA col : st[col] = {})

\* the read succeeds and pandas parses the content: parse_file gets as far
\* as the validation of the columns
ReachesColumnValidation(f) == f.readable /\ ~IsEmptyData(f) /\ ~IsParserError(f)

\* the cell of line r of the file under the header at position j
FileCell(f, r, j) == IF j <= Len(f.rows[r]) THEN f.rows[r][j] ELSE NA

\* row r of the result carries, for every required column, the cell of line
\* r under the header that stands for the column
RowFromHeaders(f, st, rows, r) ==
  /\ \A j \in st[Equipment_Name] : rows[r].name = AsStrStripped(FileCell(f, r, j)).s
  /\ \A j \in st[Type] : rows[r].type = AsStrStripped(FileCell(f, r, j)).s
  /\ \A j \in st[Flowrate] : rows[r].flowrate = ToNumeric(FileCell(f, r, j)).v
  /\ \A j \in st[Pressure] : rows[r].pressure = ToNumeric(FileCell(f, r, j)).v
  /\ \A j \in st[Temperature] : rows[r].temperature = ToNumeric(FileCell(f, r, j)).v

\* C17: parse_file fails at the validation of the columns exactly when some
\* required column has no header equal to it after lower-casing and trimming
\* the header; it then records one error, which names exactly the missing
\* columns; a header differing from the required name in case or surrounding
\* blanks only is accepted, and its cells are returned under the canonical name.
C17_MissingColumnsNamed ==
  (stage = "parsed" /\ ReachesColumnValidation(file)) =>
    \A st \in {Standing(file.header)} :
    LET missing == MissingColumns(st)
    IN /\ (missing # <<>>) <=>
            (\E i \in 1..Len(errors) : errors[i].text = "Missing required columns")
       /\ missing # <<>> =>
            /\ ~success
            /\ errors = <<Msg("Missing required columns", missing, 0)>>
       /\ (success /\ Len(df) = Len(file.rows)) =>
            \A r \in 1..Len(df) : RowFromHeaders(file, st, df, r)

\* a header in lower case with trailing blanks and without Pressure: the
\* error names Pressure alone
C17_Witness ==
  /\ stage = "parsed"
  /\ ~success
  /\ errors = <<Msg("Missing required columns", <<Pressure>>, 0)>>
  /\ Len(file.header) = 4
  /\ \A j \in 1..Len(file.header) : file.header[j] \notin Range(REQUIRED_COLUMNS)

\* line r of the file has nothing in any field
BlankLine(f, r) == \A j \in 1..Len(f.header) : IsNull(FileCell(f, r, j))

\* line r of the file has, after coercion, no number in some numeric column
IncompleteLine(f, st, r) ==
  \E i \in 1..Len(NUMERIC_COLUMNS) :
    \E j \in st[NUMERIC_COLUMNS[i]] : IsNull(ToNumeric(FileCell(f, r, j)))

\* C18: if, after numeric coercion, every row lacks at least one of
\* Flowrate, Pressure and Temperature, parse_file returns success=False, an
\* empty row set and the one fatal error that no valid rows are left (found,
\* when the file has no row with any content).
C18_NoValidRowsIsFatal ==
  (stage = "parsed" /\ ReachesColumnValidation(file)) =>
    \A st \in {Standing(file.header)} :
       (/\ MissingColumns(st) = <<>>
        /\ \A r \in 1..Len(file.rows) : IncompleteLine(file, st, r)) =>
         /\ ~success
         /\ df = <<>>
         /\ errors =
              <<Msg(IF \A r \in 1..Len(file.rows) : BlankLine(file, r)
                    THEN "No valid data rows found in the file."
                    ELSE "No valid data rows after cleaning.", <<>>, 0)>>

\* a file of two lines, each with a Flowrate that is no number
C18_Witness ==
  /\ stage = "parsed"
  /\ ~success
  /\ Len(file.rows) = 2
  /\ \A r \in 1..Len(file.rows) : file.rows[r][3].k = "txt"
  /\ errors = <<Msg("No valid data rows after cleaning.", <<>>, 0)>>

\* C19: parse_file never lets an exception reach its caller: whatever the
\* input, a failing read included, it returns rows and a success flag, and
\* the flag is False exactly when the list of errors is not empty.
C19_FailureIffErrors ==
  stage = "parsed" =>
    /\ success \in BOOLEAN
    /\ ~success <=> errors # <<>>
    /\ ~file.readable =>
         (~success /\ errors = <<Msg("Unexpected error", <<>>, 0)>>)

\* parse_file has returned from a read that failed
C19_Witness ==
  /\ stage = "parsed"
  /\ ~file.readable
  /\ ~success
  /\ Len(errors) = 1

\* the lines of the file with content in some field
NonBlank(f) == {r \in 1..Len(f.rows) : ~BlankLine(f, r)}

\* the lines among those of some that lack a number in the numeric column col
LinesWithout(f, st, some, col) ==
  {r \in some : \E j \in st[col] : IsNull(ToNumeric(FileCell(f, r, j)))}

\* a line among those of some has a negative number in the numeric column col
HasNegativeIn(f, st, some, col) ==
  \E r \in some : \E j \in st[col] : RatLess(ToNumeric(FileCell(f, r, j)).v, Zero)

\* the warnings ws report the defects of the file f and nothing else
WarningsReport(f, st, ws) ==
  LET some == NonBlank(f)
      latin == Msg("File was not UTF-8 encoded, used latin-1 encoding.", <<>>, 0)
      missing(col) ==
        Msg("Column has missing values", <<col>>,
            Cardinality(LinesWithout(f, st, some, col)))
      dropped ==
        Msg("Dropped rows with missing numeric values.", <<>>,
            Cardinality({r \in some : IncompleteLine(f, st, r)}))
      negative(col) == Msg("Column contains negative values", <<col>>, 0)
      expected ==
        (IF f.utf8 THEN {} ELSE {latin})
        \cup {missing(col) :
                col \in {c \in Range(NUMERIC_COLUMNS) : LinesWithout(f, st, some, c) # {}}}
        \cup (IF dropped.count > 0 THEN {dropped} ELSE {})
        \cup {negative(col) :
                col \in {c \in Range(NUMERIC_COLUMNS) : HasNegativeIn(f, st, some, c)}}
  IN Range(ws) = expected /\ Len(ws) = Cardinality(expected)

\* C20: whenever parse_file returns success=False the returned row set is
\* empty; and a file that passes the validation of the columns and has at
\* least one line complete in its numeric fields, whatever its encoding, its
\* missing values, its dropped lines and its negative values, is parsed with
\* success=True, no error, exactly the warnings of these defects and a row
\* set that is not empty.
C20_WarningsNeverFatal ==
  stage = "parsed" =>
    /\ ~success => df = <<>>
    /\ ReachesColumnValidation(file) =>
         \A st \in {Standing(file.header)} :
            (/\ MissingColumns(st) = <<>>
             /\ \E r \in 1..Len(file.rows) : ~IncompleteLine(file, st, r)) =>
              /\ success
              /\ errors = <<>>
              /\ df # <<>>
              /\ WarningsReport(file, st, warnings)

\* a successful parse that dropped a line and met a negative value
C20_Witness ==
  /\ stage = "parsed"
  /\ success
  /\ df # <<>>
  /\ DroppedCount(warnings) > 0
  /\ \E i \in 1..Len(warnings) : warnings[i].text = "Column contains negative values"

\* the messages parse_file produces on the file f, on an instance that holds
\* no message yet
MessagesOf(f) == [errors |-> ParseFile(f).errors, warnings |-> ParseFile(f).warnings]

\* C21: errors and warnings are reset at the start of each parse_file call:
\* after a call, the first on the instance or a later one, get_errors() and
\* get_warnings() hold the messages of that call and no message of an
\* earlier call.
C21_MessagesOfLastCallOnly ==
  [][(stage \in {"new", "parsed"} /\ stage' = "parsed") =>
       \A m \in {MessagesOf(file')} :
          /\ errors' = m.errors
          /\ warnings' = m.warnings]_vars

\* a parse of an unreadable file, as a used instance is handed: the one
\* error of the failed read and no warning
C21_Witness ==
  /\ stage = "parsed"
  /\ file \in ReuseFiles
  /\ ~file.readable
  /\ errors = <<Msg("Unexpected error", <<>>, 0)>>
  /\ warnings = <<>>

\* the number of lines with content that, after coercion, lack a value in
\* the required column col: text columns are turned into text before the
\* count, so that only a numeric column can lack a value
MissingIn(f, st, col) ==
  IF col \in Range(NUMERIC_COLUMNS)
  THEN Cardinality(LinesWithout(f, st, NonBlank(f), col))
  ELSE 0

\* the positions of the warnings about missing values in the column col
MissingWarnings(ws, col) ==
  {i \in 1..Len(ws) : ws[i].text = "Column has missing values" /\ ws[i].cols = <<col>>}

NegativeWarningsFor(ws, col) ==
  {i \in 1..Len(ws) : ws[i].text = "Column contains negative values" /\ ws[i].cols = <<col>>}

\* line r of the file has a negative number in some numeric column
NegativeLine(f, st, r) ==
  \E i \in 1..Len(NUMERIC_COLUMNS) : HasNegativeIn(f, st, {r}, NUMERIC_COLUMNS[i])

\* C23: negative values are never rejected: a parse that fails records no
\* line with a negative value as its cause (it fails only when no line is
\* complete in its numeric fields), every line with a negative flowrate,
\* pressure or temperature is among the returned rows of a successful parse,
\* and the warnings hold exactly one notice for each numeric column in which
\* some returned row is negative and none for the other numeric columns.
C23_NegativesKeptAndWarned ==
  stage = "parsed" =>
    /\ \A i \in 1..Len(NUMERIC_COLUMNS) :
         Cardinality(NegativeWarningsFor(warnings, NUMERIC_COLUMNS[i])) =
           IF \E r \in 1..Len(df) : RatLess(df[r][NUMERIC_FIELDS[i]], Zero)
           THEN 1 ELSE 0
    /\ \A i \in 1..Len(errors) : errors[i].text # "Column contains negative values"
    /\ ReachesColumnValidation(file) =>
         \A st \in {Standing(file.header)} :
            MissingColumns(st) = <<>> =>
              /\ (\E r \in 1..Len(file.rows) :
                    NegativeLine(file, st, r) /\ ~IncompleteLine(file, st, r)) => success
              /\ success =>
                   \A r \in 1..Len(file.rows) :
                      NegativeLine(file, st, r) =>
                        \E k \in 1..Len(df) :
                           \A i \in 1..Len(NUMERIC_COLUMNS) :
                              \A j \in st[NUMERIC_COLUMNS[i]] :
                                 df[k][NUMERIC_FIELDS[i]] = ToNumeric(FileCell(file, r, j)).v

\* a successful parse that returns a row of negative flowrate and a row of
\* negative temperature, with one notice for each of the two columns
C23_Witness ==
  /\ stage = "parsed"
  /\ success
  /\ \E r \in 1..Len(df) : RatLess(df[r].flowrate, Zero)
  /\ \E r \in 1..Len(df) : RatLess(df[r].temperature, Zero)
  /\ Cardinality(NegativeWarningsFor(warnings, Flowrate)) = 1
  /\ Cardinality(NegativeWarningsFor(warnings, Temperature)) = 1
  /\ NegativeWarningsFor(warnings, Pressure) = {}

(***************************************************************************)
(* Properties of the stored data and of the requests (Spec, SpecAdmin)     *)
(***************************************************************************)
\* the ids the rows of a table refer to
DatasetIdsOf(table) == {x.dataset : x \in table}

\* C3: in every state readers can observe, a dataset created by upload
\* exists exactly when all of its Equipment rows and its AnalysisResult
\* exist, and an upload that ended with an error has left no dataset, row or
\* snapshot behind.
C3_UploadAtomic ==
  /\ \A d \in db.datasets :
       /\ EquipmentOf(db, d.id) = EquipmentRows(d.id, ParseFile(d.file).rows)
       /\ Cardinality(EquipmentOf(db, d.id)) = d.row_count
       /\ Cardinality(AnalysisOf(db, d.id)) = 1
  /\ DatasetIdsOf(db.equipment) \cup DatasetIdsOf(db.analysis)
       \subseteq {d.id : d \in db.datasets}
  /\ (response.op = "upload" /\ response.status # 201) =>
       /\ response.status \in {400, 500}
       /\ response.id \notin {d.id : d \in db.datasets}
                             \cup DatasetIdsOf(db.equipment)
                             \cup DatasetIdsOf(db.analysis)

\* an upload failed after its dataset was inserted, next to committed data
C3_Witness ==
  /\ response.op = "upload"
  /\ response.status = 500
  /\ response.id # 0
  /\ db.datasets # {}

\* C4: once enforcement has run, and once the upload has completed, the
\* uploading user owns at most MAX_DATASETS_PER_USER datasets.
C4_AtMostCap ==
  /\ tx.pc = "enforced" =>
       Cardinality(DatasetsOf(TxView, tx.user)) <= MAX_DATASETS_PER_USER
  /\ (response.op = "upload" /\ response.status = 201) =>
       Cardinality(DatasetsOf(db, response.user)) <= MAX_DATASETS_PER_USER

\* enforcement has evicted a dataset and left the user at the cap
C4_Witness ==
  /\ tx.pc = "enforced"
  /\ tx.delta.del # {}
  /\ Cardinality(DatasetsOf(TxView, tx.user)) = MAX_DATASETS_PER_USER

\* C5: a step of _enforce_dataset_limit deletes exactly the datasets of the
\* user above the cap (count - MAX_DATASETS_PER_USER of them, none when the
\* count is within the cap), and each deleted dataset was uploaded no later
\* than each retained one.
C5_OldestFirst ==
  [][(tx.pc = "stored" /\ tx'.pc = "enforced") =>
       LET before == DatasetsOf(TxView, tx.user)
           deleted == {d \in before : d.id \in tx'.delta.del}
           retained == before \ deleted
       IN /\ tx'.delta.del \subseteq {d.id : d \in before}
          /\ \A x \in deleted, y \in retained : x.uploaded_at <= y.uploaded_at
          /\ Cardinality(deleted) =
               IF Cardinality(before) > MAX_DATASETS_PER_USER
               THEN Cardinality(before) - MAX_DATASETS_PER_USER
               ELSE 0]_vars

\* enforcement has evicted an older dataset and kept the one just uploaded
C5_Witness ==
  /\ tx.pc = "enforced"
  /\ tx.delta.del # {}
  /\ tx.dataset \notin tx.delta.del

\* C6: no Equipment row and no AnalysisResult refers to a dataset that does
\* not exist, and every dataset has at most one AnalysisResult.
C6_NoOrphans ==
  /\ \A e \in db.equipment : \E d \in db.datasets : d.id = e.dataset
  /\ \A a \in db.analysis : \E d \in db.datasets : d.id = a.dataset
  /\ \A d \in db.datasets : Cardinality(AnalysisOf(db, d.id)) <= 1

\* a dataset has been destroyed while rows of another dataset remain
C6_Witness ==
  /\ response.op = "destroy"
  /\ response.status = 204
  /\ db.equipment # {}
  /\ db.analysis # {}

\* the part of the tables that belongs to the datasets of one user
OwnView(base, user) ==
  LET ids == {d.id : d \in {x \in base.datasets : x.uploaded_by = user}}
  IN [datasets |-> {d \in base.datasets : d.id \in ids},
      equipment |-> {e \in base.equipment : e.dataset \in ids},
      analysis |-> {a \in base.analysis : a.dataset \in ids}]

\* the part of the tables that belongs to the datasets of the other users
OthersView(base, user) ==
  LET ids == {d.id : d \in {x \in base.datasets : x.uploaded_by # user}}
  IN [datasets |-> {d \in base.datasets : d.id \in ids},
      equipment |-> {e \in base.equipment : e.dataset \in ids},
      analysis |-> {a \in base.analysis : a.dataset \in ids}]

\* the responses a reading operation can give from the tables base
AnswersOf(base, op, user, id) ==
  CASE op = "list" -> {ListAnswer(base, user)}
    [] op = "retrieve" -> {RetrieveAnswer(base, user, id)}
    [] op = "analytics" -> AnalyticsAnswers(base, user, id)
    [] op = "equipment" -> {EquipmentAnswer(base, user, id)}
    [] op = "pdf" -> PdfAnswers(base, user, id)
    [] op = "dashboard" -> DashboardAnswers(base, user)
    [] op = "equipment-list" -> EquipmentViewAnswers(base, user, id)

\* C7: a request of user A through DatasetViewSet (list, retrieve,
\* analytics, equipment, pdf, destroy, dashboard) or EquipmentViewSet leaves
\* the data of the other users unchanged; if it names a dataset of another
\* user it is answered 404 (the equipment listing: with no rows); a reading
\* request is answered as it would be were the other users' data absent; and
\* destroy deletes the named dataset exactly when A owns it.
C7_OwnerIsolation ==
  [][(response' # response /\ response'.op \notin {"none", "upload"}) =>
       LET r == response'
           foreign == \E d \in db.datasets : d.id = r.id /\ d.uploaded_by # r.user
           owned == \E d \in db.datasets : d.id = r.id /\ d.uploaded_by = r.user
       IN /\ OthersView(db', r.user) = OthersView(db, r.user)
          /\ foreign => IF r.op = "equipment-list"
                        THEN r.status = 200 /\ r.body.results = {}
                        ELSE r.status = 404
          /\ r.op # "destroy" =>
               /\ db' = db
               /\ r \in AnswersOf(OwnView(db, r.user), r.op, r.user, r.id)
          /\ r.op = "destroy" =>
               /\ r.status = (IF owned THEN 204 ELSE 404)
               /\ OwnView(db', r.user) =
                    [datasets |-> {d \in OwnView(db, r.user).datasets : d.id # r.id},
                     equipment |-> {e \in OwnView(db, r.user).equipment : e.dataset # r.id},
                     analysis |-> {a \in OwnView(db, r.user).analysis : a.dataset # r.id}]]_vars

\* a user has asked for a dataset of another user and has been answered 404
C7_Witness ==
  /\ response.status = 404
  /\ \E d \in db.datasets : d.id = response.id /\ d.uploaded_by # response.user

\* C8: analytics and generate_pdf change none of the stored Dataset,
\* Equipment and AnalysisResult records; for a dataset without stored
\* AnalysisResult they answer with the snapshot computed from the dataset's
\* rows, and the analytics response then carries computed_at = None.
C8_OnTheFlyNotPersisted ==
  [][(response' # response /\ response'.op \in {"analytics", "pdf"}) =>
       LET r == response'
       IN /\ db' = db
          /\ (r.status = 200 /\ AnalysisOf(db, r.id) = {}) =>
               \E rows \in EquipmentItems(db, r.id) :
                 IF r.op = "analytics"
                 THEN /\ r.body.computed_at = None
                      /\ r.body.summary = GetSummaryResponse(ComputeAnalytics(rows))
                      /\ r.body.chart_data = GetChartData(ComputeAnalytics(rows))
                 ELSE r.body.analytics = ComputeAnalytics(rows)]_vars

\* analytics has answered for a dataset that has rows but no stored snapshot
C8_Witness ==
  /\ response.op = "analytics"
  /\ response.status = 200
  /\ response.body.computed_at = None
  /\ response.body.summary.total_count > 0
  /\ AnalysisOf(db, response.id) = {}

\* the summary and chart views a snapshot gives
ViewsOf(analytics_data) ==
  [summary |-> GetSummaryResponse(analytics_data),
   chart_data |-> GetChartData(analytics_data)]

\* two mappings with the same keys and the same value for each key
SameMapping(d1, d2) == Len(d1) = Len(d2) /\ Range(d1) = Range(d2)

\* the value of each label of a chart series
ByLabel(labels, data) == {<<labels[i], data[i]>> : i \in 1..Len(labels)}

\* two pairs of views with the same values and keys, whatever the key order
SameUpToOrder(v, w) ==
  /\ v.summary.total_count = w.summary.total_count
  /\ v.summary.averages = w.summary.averages
  /\ v.summary.ranges = w.summary.ranges
  /\ Len(v.summary.equipment_types) = Len(w.summary.equipment_types)
  /\ Range(v.summary.equipment_types) = Range(w.summary.equipment_types)
  /\ SameMapping(v.summary.type_distribution, w.summary.type_distribution)
  /\ SameMapping(v.summary.stats_by_type, w.summary.stats_by_type)
  /\ Len(v.chart_data.pie_chart.labels) = Len(w.chart_data.pie_chart.labels)
  /\ ByLabel(v.chart_data.pie_chart.labels, v.chart_data.pie_chart.data)
       = ByLabel(w.chart_data.pie_chart.labels, w.chart_data.pie_chart.data)
  /\ Len(v.chart_data.bar_chart.labels) = Len(w.chart_data.bar_chart.labels)
  /\ \A k \in 1..Len(NUMERIC_FIELDS) :
       /\ v.chart_data.bar_chart.datasets[k].label = w.chart_data.bar_chart.datasets[k].label
       /\ ByLabel(v.chart_data.bar_chart.labels, v.chart_data.bar_chart.datasets[k].data)
            = ByLabel(w.chart_data.bar_chart.labels, w.chart_data.bar_chart.datasets[k].data)

\* C9 as stated: for every dataset, the summary and chart views built from
\* the stored AnalysisResult equal the views recomputed from the dataset's
\* rows: same values, same keys, same label order.
C9_StoredEqualsRecomputed ==
  \A d \in db.datasets :
    \A a \in AnalysisOf(db, d.id), rows \in EquipmentItems(db, d.id) :
      ViewsOf(StoredAnalyticsData(a)) = ViewsOf(ComputeAnalytics(rows))

\* C9, amended: the views built from the stored AnalysisResult and the views
\* recomputed from the rows have the same values and the same keys; the
\* order of the type keys, and with it the order of the chart labels, may
\* differ (each series stays aligned with its own labels).
C9_StoredMatchesRecomputed ==
  \A d \in db.datasets :
    \A a \in AnalysisOf(db, d.id), rows \in EquipmentItems(db, d.id) :
      SameUpToOrder(ViewsOf(StoredAnalyticsData(a)), ViewsOf(ComputeAnalytics(rows)))

\* analytics has answered from a stored snapshot whose bar labels come in
\* another order than recomputation over the same rows gives
C9_Witness ==
  /\ response.op = "analytics"
  /\ response.status = 200
  /\ response.body.computed_at # None
  /\ \E rows \in EquipmentItems(db, response.id) :
       /\ rows # <<>>
       /\ response.body.chart_data.bar_chart.labels
            # GetChartData(ComputeAnalytics(rows)).bar_chart.labels

\* C24: in every committed state, each dataset has a stored AnalysisResult,
\* and its row_count is the number of its Equipment rows and the total_count
\* of that AnalysisResult.
C24_RowCountConsistent ==
  \A d \in db.datasets :
     /\ d.row_count = Cardinality(EquipmentOf(db, d.id))
     /\ AnalysisOf(db, d.id) # {}
     /\ \A a \in AnalysisOf(db, d.id) : a.total_count = d.row_count

\* a list request answered after the upload of a file of three lines, one of
\* them without a usable Flowrate
C24_Witness ==
  /\ response.op = "list"
  /\ response.status = 200
  /\ \E d \in DatasetsOf(db, response.user) :
       /\ d.row_count = 3
       /\ Cardinality(EquipmentOf(db, d.id)) = 3
       /\ \E e \in EquipmentOf(db, d.id) : IsNaN(e.flowrate)
       /\ \E a \in AnalysisOf(db, d.id) : a.total_count = 3

\* the rows of the three tables that belong to datasets of other users than user
OfOtherUsers(base, user) ==
  LET others == {d \in base.datasets : d.uploaded_by # user}
  IN [datasets |-> others,
      equipment |-> {e \in base.equipment : e.dataset \in {d.id : d \in others}},
      analysis |-> {a \in base.analysis : a.dataset \in {d.id : d \in others}}]

\* a step of _enforce_dataset_limit leaves the datasets, rows and snapshots
\* of the other users as they were
EnforcementSparesOtherUsers ==
  [][(tx.pc = "stored" /\ tx'.pc = "enforced") =>
       OfOtherUsers(Apply(db', tx'.delta), tx.user) = OfOtherUsers(TxView, tx.user)]_vars

\* C25: with a cap of at least one dataset, the step of _enforce_dataset_limit
\* of an upload deletes neither the dataset this upload has created nor any
\* dataset, Equipment row or AnalysisResult of another user, and changes none
\* of the latter.
C25_EnforcementSparesNewAndOthers ==
  [][(MAX_DATASETS_PER_USER >= 1 /\ tx.pc = "stored" /\ tx'.pc = "enforced") =>
       /\ tx.dataset \notin tx'.delta.del
       /\ OfOtherUsers(Apply(db', tx'.delta), tx.user) = OfOtherUsers(TxView, tx.user)]_vars

(***************************************************************************)
(* Properties of the desktop client (SpecApp, SpecClient, SpecClientFair)  *)
(***************************************************************************)
\* C26: _make_request terminates with bounded retries: in one call of the
\* APIClient, whatever the server answers, the token is refreshed at most
\* once and the request is sent at most twice, the second time with
\* retry_on_401=False and after the one refresh; and, every exchange with the
\* server ending with a response or an exception, the call ends.
C26_BoundedRetries ==
  /\ [](/\ call.refreshes <= 1
        /\ call.sends <= 2
        /\ call.sends = 2 => (call.refreshes = 1 /\ ~call.retry_on_401))
  /\ (call.pc # "idle") ~> (call.pc = "idle")

\* a call has ended whose request was answered 401 twice, around one refresh
C26_Witness ==
  /\ call.pc = "idle"
  /\ call.sends = 2
  /\ call.refreshes = 1
  /\ call.answer.status = 401

\* C27: whenever a request sent with the token ends with a 401 that was not
\* recovered (no refresh token stored, refresh rejected, or the retried
\* request answered 401 again), the store holds no access token, no refresh
\* token and no user, auth_required has been emitted and the caller of
\* _make_request gets an APIError with status 401.
C27_UnrecoveredSessionExpires ==
  [][(/\ call.pc # "idle" /\ call'.pc = "idle"
      /\ call.include_auth
      /\ call'.answer.status = 401) =>
       /\ settings' = ClearAuth
       /\ signals'.auth_required = signals.auth_required + 1
       /\ call'.result = Result("APIError", FALSE, 401)]_vars

\* the same for the requests that were not sent a second time: no refresh
\* token stored, or the refresh rejected or left unanswered
UnrefreshedSessionExpires ==
  [][(/\ call.pc # "idle" /\ call'.pc = "idle"
      /\ call.include_auth
      /\ call'.answer.status = 401
      /\ call.sends = 1) =>
       /\ call.op # "logout" => settings' = ClearAuth
       /\ signals'.auth_required = signals.auth_required + 1
       /\ call'.result = Result("APIError", FALSE, 401)]_vars

\* C28: whatever way _make_request is left (result, error dictionary, retry,
\* expired session, timeout, connection error, other exception of requests),
\* every request_started is matched by one request_finished: the two counts
\* are equal whenever no call is in progress, and while one is in progress
\* they differ by the number of frames of _make_request not yet left.
C28_StartedMatchesFinished ==
  /\ signals.request_finished <= signals.request_started
  /\ call.pc = "idle" => signals.request_finished = signals.request_started
  /\ call.pc # "idle" =>
       signals.request_started - signals.request_finished = call.depth

\* a call has ended by a timeout of the retried request: two frames were
\* left by the APIError
C28_Witness ==
  /\ call.pc = "idle"
  /\ call.depth = 2
  /\ call.answer.raises = "Timeout"
  /\ call.result.kind = "APIError"
  /\ signals.request_started = 2
  /\ signals.request_finished = 2

\* C29: when APIClient.logout has returned, whatever the server answered and
\* whether or not a refresh token was stored, the store holds no access token,
\* no refresh token and no user, is_authenticated() is False and the value
\* returned is {'success': True}.
C29_LogoutAlwaysClears ==
  (call.pc = "idle" /\ call.op = "logout") =>
    /\ settings.access_token = None
    /\ settings.refresh_token = None
    /\ settings.user = None
    /\ ~IsAuthenticated(settings)
    /\ call.returned = Result("dict", TRUE, 0)

\* logout has returned after its request to the server timed out
C29_Witness ==
  /\ call.pc = "idle"
  /\ call.op = "logout"
  /\ call.sends = 1
  /\ call.answer.raises = "Timeout"
  /\ call.result.kind = "APIError"
  /\ settings = ClearAuth

\* C30: once the Application runs and no call is in progress, the main window
\* is shown exactly when the store holds an access token, and the window of
\* the login and registration pages exactly when it holds none.
C30_WindowFollowsCredentials ==
  (call.pc = "idle" /\ (window.main_window \/ window.auth_stack # "hidden")) =>
    /\ window.main_window <=> IsAuthenticated(settings)
    /\ window.auth_stack # "hidden" <=> ~IsAuthenticated(settings)

====
